---- MODULE Spec2Model ----
(***************************************************************************)
(* A model of schema_salad's Python code generator                         *)
(* (src/schema_salad/python_codegen.py): the loader graph compiler         *)
(* (type_loader and the TypeDef registry) and the record units it emits    *)
(* (begin_class / declare_id_field / declare_field / end_class), together  *)
(* with the execution of an emitted fromDoc on a raw document.             *)
(*                                                                         *)
(* Python strings that the generator builds with str.format are modelled   *)
(* as sequences of tokens, so that concatenation is sequence               *)
(* concatenation and two names are equal exactly when their texts are.     *)
(* Python objects whose identity matters (TypeDef) carry an object id.     *)
(***************************************************************************)
EXTENDS Naturals, Integers, Sequences, FiniteSets, TLC

VARIABLES
    collected_types,  \* CodeGenBase.collected_types: canonical name -> TypeDef
    vocab,            \* CodeGenBase.vocab: term -> URI
    nextOid,          \* the next fresh Python object id for a TypeDef(...)
    prologue_done,    \* prologue() has run
    returned,         \* log of the top-level type_loader calls and what they returned
    out,              \* PythonCodeGen.out: the chunks of code written so far
    serializer,       \* PythonCodeGen.serializer: the chunks of the save method
    current_class_is_abstract,  \* PythonCodeGen.current_class_is_abstract
    idfield,          \* PythonCodeGen.idfield
    rec,              \* the record declaration being emitted
    emit_pc,          \* where the emission of the record unit stands
    next_field,       \* the index in rec.fields of the next field to declare
    pc,               \* the chunk of out that the running fromDoc executes next (0: none)
    frame,            \* the running fromDoc's arguments and local variables
    uuid_count,       \* the number of uuid4() values drawn so far
    loads,            \* the finished fromDoc calls: arguments and outcome
    applied,          \* log of the values decoded with a compiled wrapping loader
    saved,            \* log of the calls of the emitted save: arguments and result
    rt,               \* makedoc: the RenderType under construction
    toc               \* makedoc: the ToC object and the number_headings call on it

compileVars == <<collected_types, vocab, nextOid, prologue_done, returned>>
emitVars == <<out, serializer, current_class_is_abstract, idfield, rec, emit_pc, next_field>>
loadVars == <<pc, frame, uuid_count, loads>>
\* the state of the operations that follow the record loads
restVars == <<applied, saved, rt, toc>>

-----------------------------------------------------------------------------
(* Bounds of the model *)

\* top-level type_loader requests in one run
MaxCalls == 2
\* alternatives of a union declaration
MaxWidth == 2
\* nesting depth of the union declarations of SpecNested
NestDepth == 3
\* calls of the emitted fromDoc on one document
MaxLoads == 2
\* the number of values decoded with a wrapping loader
MaxApplied == 1
\* the number of saves of one loaded instance
MaxSaves == 1
\* the length of the type list given to makedoc's RenderType
MaxTypes == 3
\* the add_entry calls and number_headings lines on one ToC
MaxEntries == 4
\* the deepest heading level
MaxDepth == 3

-----------------------------------------------------------------------------
(* Names *)

XsdString  == "http://www.w3.org/2001/XMLSchema#string"
XsdInt     == "http://www.w3.org/2001/XMLSchema#int"
XsdLong    == "http://www.w3.org/2001/XMLSchema#long"
XsdFloat   == "http://www.w3.org/2001/XMLSchema#float"
XsdDouble  == "http://www.w3.org/2001/XMLSchema#double"
XsdBoolean == "http://www.w3.org/2001/XMLSchema#boolean"
SaladNull  == "https://w3id.org/cwl/salad#null"
SaladAny   == "https://w3id.org/cwl/salad#Any"

RecAUrl == "https://example.com/s#RecA"
RecBUrl == "https://example.com/s#RecB"
EnumEUrl == "https://example.com/s#E"
SymXUrl == "https://example.com/s#E/x"
SymYUrl == "https://example.com/s#E/y"
\* a type name that no declaration registers
NoSuchUrl == "https://example.com/s#Missing"

\* the record whose unit is emitted, and its fields
RecUrl == "https://example.com/s#Rec"
ClassFieldUrl == "https://example.com/s#Rec/class"
IdFieldUrl == "https://example.com/s#Rec/id"
AFieldUrl == "https://example.com/s#Rec/a"
BFieldUrl == "https://example.com/s#Rec/b"
UFieldUrl == "https://example.com/s#Rec/u"
RFieldUrl == "https://example.com/s#Rec/r"

\* schema.avro_name on the names of the model: the fragment's last segment,
\* the name itself when it has no fragment.
avro_name(url) ==
    CASE url = RecAUrl -> "RecA"
      [] url = RecBUrl -> "RecB"
      [] url = EnumEUrl -> "E"
      [] url = SymXUrl -> "x"
      [] url = SymYUrl -> "y"
      [] url = NoSuchUrl -> "Missing"
      [] url = RecUrl -> "Rec"
      [] url = ClassFieldUrl -> "class"
      [] url = IdFieldUrl -> "id"
      [] url = AFieldUrl -> "a"
      [] url = BFieldUrl -> "b"
      [] url = UFieldUrl -> "u"
      [] url = RFieldUrl -> "r"
      [] url = XsdString -> "string"
      [] url = XsdInt -> "int"
      [] url = XsdLong -> "long"
      [] url = XsdFloat -> "float"
      [] url = XsdDouble -> "double"
      [] url = XsdBoolean -> "boolean"
      [] url = SaladNull -> "null"
      [] url = SaladAny -> "Any"
      [] OTHER -> url

\* schema.shortname: the last path segment of the fragment (of the path when
\* there is no fragment)
shortname(url) == avro_name(url)

\* PythonCodeGen.safe_name, as a token sequence
safe_name(name) ==
    LET avn == avro_name(name)
    IN  IF avn \in {"class", "in"} THEN <<avn, "_">> ELSE <<avn>>

Range(f) == {f[i] : i \in DOMAIN f}

\* "sep".join(names) over token sequences
RECURSIVE Join(_, _)
Join(names, sep) ==
    IF names = <<>> THEN <<>>
    ELSE IF Len(names) = 1 THEN names[1]
    ELSE names[1] \o sep \o Join(Tail(names), sep)

-----------------------------------------------------------------------------
(* TypeDef and the registry *)

\* codegen_base.TypeDef(name, init, is_uri=False, scoped_id=False, ref_scope=0):
\* a fresh Python object
TypeDefFlags(oid, name, init, is_uri, scoped_id, ref_scope) ==
    [oid |-> oid, name |-> name, init |-> init,
     is_uri |-> is_uri, scoped_id |-> scoped_id, ref_scope |-> ref_scope]

TypeDef(oid, name, init) == TypeDefFlags(oid, name, init, FALSE, FALSE, <<"0">>)

\* Python values: None, a str (its text as tokens), an int, a mapping, a list
None == [t |-> "null"]
Str(v) == [t |-> "str", v |-> v]
Num(n) == [t |-> "int", v |-> n]
Map(v) == [t |-> "map", v |-> v]
List(v) == [t |-> "list", v |-> v]

\* str(x) of a bool
PyBool(b) == IF b THEN <<"True">> ELSE <<"False">>

\* a loader constructor call "_XLoader(args)" of TypeDef.init
Ctor(loader, args) == [loader |-> loader, args |-> args]

\* the module-level prims table: eight TypeDef objects, created at import
prims ==
    (XsdString  :> TypeDef(1, <<"strtype">>, Ctor("_PrimitiveLoader", <<<<"(str, str)">>>>))) @@
    (XsdInt     :> TypeDef(2, <<"inttype">>, Ctor("_PrimitiveLoader", <<<<"int">>>>))) @@
    (XsdLong    :> TypeDef(3, <<"inttype">>, Ctor("_PrimitiveLoader", <<<<"int">>>>))) @@
    (XsdFloat   :> TypeDef(4, <<"floattype">>, Ctor("_PrimitiveLoader", <<<<"float">>>>))) @@
    (XsdDouble  :> TypeDef(5, <<"floattype">>, Ctor("_PrimitiveLoader", <<<<"float">>>>))) @@
    (XsdBoolean :> TypeDef(6, <<"booltype">>, Ctor("_PrimitiveLoader", <<<<"bool">>>>))) @@
    (SaladNull  :> TypeDef(7, <<"None_type">>, Ctor("_PrimitiveLoader", <<<<"type(None)">>>>))) @@
    (SaladAny   :> TypeDef(8, <<"Any_type">>, Ctor("_AnyLoader", <<>>)))

\* dict order of prims
primsOrder ==
    <<XsdString, XsdInt, XsdLong, XsdFloat, XsdDouble, XsdBoolean, SaladNull, SaladAny>>

\* the first object id that is not a prims entry
FirstOid == 9

NoTypeDef == TypeDef(0, <<>>, Ctor("", <<>>))

\* the generator state threaded through a compile call
GenState(ct, vc, next) == [collected_types |-> ct, vocab |-> vc, nextOid |-> next]

\* results of a call: normal return or a raised exception
Return(st, ret) == [st |-> st, exc |-> "none", ret |-> ret]
Raise(st, exc) == [st |-> st, exc |-> exc, ret |-> NoTypeDef]

\* CodeGenBase.declare_type (the registry's intern): the existing entry when one
\* has the candidate's canonical name, else the candidate, now registered
declare_type(td, st) ==
    IF td.name \in DOMAIN st.collected_types
    THEN Return(st, st.collected_types[td.name])
    ELSE Return([st EXCEPT !.collected_types = (td.name :> td) @@ @], td)

\* declare_type(TypeDef(name, init)): the constructor allocates a fresh object
declare_new(name, init, st) ==
    declare_type(TypeDef(st.nextOid, name, init), [st EXCEPT !.nextOid = @ + 1])

\* CodeGenBase.add_vocab: re-registering a term under another URI is an error
add_vocab(name, uri, st) ==
    IF name \in DOMAIN st.vocab /\ st.vocab[name] # uri
    THEN Raise(st, "SchemaException")
    ELSE Return([st EXCEPT !.vocab = (name :> uri) @@ @], NoTypeDef)

RECURSIVE add_vocab_each(_, _)
add_vocab_each(syms, st) ==
    IF syms = <<>> THEN Return(st, NoTypeDef)
    ELSE LET r == add_vocab(shortname(Head(syms)), Head(syms), st)
         IN  IF r.exc # "none" THEN r ELSE add_vocab_each(Tail(syms), r.st)

-----------------------------------------------------------------------------
(* Schema type declarations *)

\* a type name (str), a sequence of alternatives (MutableSequence), a mapping
StrDecl(s) == [k |-> "str", s |-> s]
ListDecl(alts) == [k |-> "list", alts |-> alts]
ArrayDecl(items) == [k |-> "map", type |-> "array", items |-> items]
EnumDecl(name, symbols) == [k |-> "map", type |-> "enum", name |-> name, symbols |-> symbols]
RecordDecl(name) == [k |-> "map", type |-> "record", name |-> name]
OtherDecl(type) == [k |-> "map", type |-> type]

\* the canonical name of a union of the loaders named subs
UnionName(subs) == <<"union_of_">> \o Join(subs, <<"_or_">>)

\* variant: the alternatives listed last to first
UnionInitReversed(subs) ==
    Ctor("_UnionLoader", [i \in 1..Len(subs) |-> subs[Len(subs) + 1 - i]])

\* the constructor call of a union of the loaders named subs
UnionInit(subs) == Ctor("_UnionLoader", subs)

RECURSIVE type_loader(_, _)
RECURSIVE type_loader_each(_, _)

\* [self.type_loader(i) for i in type_declaration]: ret is the list of TypeDefs
type_loader_each(decls, st) ==
    IF decls = <<>> THEN Return(st, <<>>)
    ELSE LET r == type_loader(Head(decls), st)
         IN  IF r.exc # "none" THEN r
             ELSE LET rest == type_loader_each(Tail(decls), r.st)
                  IN  IF rest.exc # "none" THEN rest
                      ELSE Return(rest.st, <<r.ret>> \o rest.ret)

\* variant: a type name is looked up under the class name, not the loader name
type_loader_by_class_name(type_declaration, st) ==
    IF type_declaration.k \in {"list", "map"} \/ type_declaration.s \in DOMAIN prims
    THEN IF type_declaration.k = "list" THEN
             LET r == type_loader_each(type_declaration.alts, st)
             IN  IF r.exc # "none" THEN r
                 ELSE LET sub == [i \in 1..Len(r.ret) |-> r.ret[i].name]
                      IN  declare_new(UnionName(sub), UnionInit(sub), r.st)
         ELSE IF type_declaration.k = "map" THEN
             IF type_declaration.type \in {"record", "https://w3id.org/cwl/salad#record"}
             THEN declare_new(safe_name(type_declaration.name) \o <<"Loader">>,
                              Ctor("_RecordLoader", <<safe_name(type_declaration.name)>>),
                              st)
             ELSE Raise(st, "SchemaException")
         ELSE Return(st, prims[type_declaration.s])
    ELSE LET key == safe_name(type_declaration.s)
         IN  IF key \in DOMAIN st.collected_types
             THEN Return(st, st.collected_types[key])
             ELSE Raise(st, "KeyError")

\* PythonCodeGen.type_loader
type_loader(type_declaration, st) ==
    IF type_declaration.k = "list" THEN
        LET r == type_loader_each(type_declaration.alts, st)
        IN  IF r.exc # "none" THEN r
            ELSE LET sub == [i \in 1..Len(r.ret) |-> r.ret[i].name]
                 IN  declare_new(UnionName(sub), UnionInit(sub), r.st)
    ELSE IF type_declaration.k = "map" THEN
        IF type_declaration.type \in {"array", "https://w3id.org/cwl/salad#array"} THEN
            LET r == type_loader(type_declaration.items, st)
            IN  IF r.exc # "none" THEN r
                ELSE declare_new(<<"array_of_">> \o r.ret.name,
                                 Ctor("_ArrayLoader", <<r.ret.name>>), r.st)
        ELSE IF type_declaration.type \in {"enum", "https://w3id.org/cwl/salad#enum"} THEN
            LET r == add_vocab_each(type_declaration.symbols, st)
            IN  IF r.exc # "none" THEN r
                ELSE declare_new(safe_name(type_declaration.name) \o <<"Loader">>,
                                 Ctor("_EnumLoader",
                                      [i \in 1..Len(type_declaration.symbols) |->
                                          safe_name(type_declaration.symbols[i])]),
                                 r.st)
        ELSE IF type_declaration.type \in {"record", "https://w3id.org/cwl/salad#record"} THEN
            declare_new(safe_name(type_declaration.name) \o <<"Loader">>,
                        Ctor("_RecordLoader", <<safe_name(type_declaration.name)>>), st)
        ELSE Raise(st, "SchemaException")
    ELSE IF type_declaration.s \in DOMAIN prims THEN
        Return(st, prims[type_declaration.s])
    ELSE LET key == safe_name(type_declaration.s) \o <<"Loader">>
         IN  IF key \in DOMAIN st.collected_types
             THEN Return(st, st.collected_types[key])
             ELSE Raise(st, "KeyError")

\* PythonCodeGen.uri_loader; ref_scope is given as its text ("None", "0", ...)
uri_loader(inner, scoped_id, vocab_term, ref_scope, st) ==
    declare_type(
        TypeDefFlags(st.nextOid,
                     <<"uri_">> \o inner.name \o <<"_">> \o PyBool(scoped_id) \o <<"_">>
                         \o PyBool(vocab_term) \o <<"_">> \o ref_scope,
                     Ctor("_URILoader",
                          <<inner.name, PyBool(scoped_id), PyBool(vocab_term), ref_scope>>),
                     TRUE, scoped_id, ref_scope),
        [st EXCEPT !.nextOid = @ + 1])

\* str(x) of a str or of None
PyStr(x) == IF x = None THEN <<"None">> ELSE x.v

\* PythonCodeGen.idmap_loader; map_subject is a str, map_predicate a str or None
idmap_loader(field, inner, map_subject, map_predicate, st) ==
    declare_new(<<"idmap_">> \o safe_name(field) \o <<"_">> \o inner.name,
                Ctor("_IdMapLoader",
                     <<inner.name,
                       <<"'">> \o PyStr(map_subject) \o <<"'">>,
                       <<"'">> \o PyStr(map_predicate) \o <<"'">>>>),
                st)

\* PythonCodeGen.typedsl_loader; ref_scope is given as its text
typedsl_loader(inner, ref_scope, st) ==
    declare_new(<<"typedsl_">> \o inner.name \o <<"_">> \o ref_scope,
                Ctor("_TypeDSLLoader", <<inner.name, ref_scope>>),
                st)

\* PythonCodeGen.prologue: declares every prims value
RECURSIVE declare_each(_, _)
declare_each(tds, st) ==
    IF tds = <<>> THEN st
    ELSE declare_each(Tail(tds), declare_type(Head(tds), st).st)

prologue(st) == declare_each([i \in 1..Len(primsOrder) |-> prims[primsOrder[i]]], st)

-----------------------------------------------------------------------------
(* The declarations compiled in the model *)

SeqsUpTo(S, n) == UNION {[1..m -> S] : m \in 1..n}

PrimDecls == {StrDecl(p) : p \in DOMAIN prims}

LeafDecls ==
    PrimDecls \cup
    {StrDecl(RecAUrl), StrDecl(NoSuchUrl),
     RecordDecl(RecAUrl), RecordDecl(RecBUrl),
     EnumDecl(EnumEUrl, <<SymXUrl, SymYUrl>>),
     ArrayDecl(StrDecl(XsdString)), OtherDecl("map")}

\* the members of the unions of SpecCompile
UnionMembers ==
    {StrDecl(XsdString), StrDecl(XsdInt), StrDecl(XsdLong), StrDecl(SaladNull),
     RecordDecl(RecAUrl), StrDecl(RecAUrl)}

\* unions whose first alternative registers a type and whose second is unknown
HalfKnownUnions ==
    {ListDecl(<<ArrayDecl(StrDecl(XsdString)), OtherDecl("map")>>),
     ListDecl(<<EnumDecl(EnumEUrl, <<SymXUrl, SymYUrl>>), StrDecl(NoSuchUrl)>>)}

CompileDecls ==
    LeafDecls \cup HalfKnownUnions
        \cup {ListDecl(a) : a \in SeqsUpTo(UnionMembers, MaxWidth)}

\* unions nested to depth d over one primitive
RECURSIVE NestedUnions(_)
NestedUnions(d) ==
    IF d = 0 THEN {StrDecl(XsdString)}
    ELSE LET prev == NestedUnions(d - 1)
         IN  prev \cup {ListDecl(a) : a \in SeqsUpTo(prev, MaxWidth)}

NestedDecls == NestedUnions(NestDepth)

-----------------------------------------------------------------------------
(* The record unit emitter.  The generator writes Python text; the model     *)
(* keeps each written piece as a chunk that records the piece's template and *)
(* the values formatted into it.                                             *)

\* the generator's emission state
Gen(o, ser, abstract, idf) ==
    [out |-> o, serializer |-> ser, current_class_is_abstract |-> abstract, idfield |-> idf]

NotClass(f) == f # "class"

\* PythonCodeGen.begin_class
begin_class(classname, extends, doc, abstract, field_names, idfield_arg, optional_fields, g) ==
    LET cn == safe_name(classname)
        ext == IF extends # <<>>
               THEN [i \in 1..Len(extends) |-> safe_name(extends[i])]
               ELSE <<<<"Savable">>>>
        header == [op |-> "class", classname |-> cn, ext |-> ext, doc |-> doc]
        IsRequired(f) == f \notin optional_fields
        IsOptional(f) == f \in optional_fields
        required_field_names == SelectSeq(field_names, IsRequired)
        optional_field_names == SelectSeq(field_names, IsOptional)
        req == SelectSeq(required_field_names, NotClass)
        opt == SelectSeq(optional_field_names, NotClass)
        \* the parameters of __init__ after self; extension_fields and
        \* loadingOptions follow them and are passed by keyword
        safe_inits ==
            [i \in 1..Len(req) |-> [name |-> safe_name(req[i]), default |-> FALSE]] \o
            [i \in 1..Len(opt) |-> [name |-> safe_name(opt[i]), default |-> TRUE]]
        \* self.class_ = "<classname>", self.<name> = <name>
        field_inits ==
            [i \in 1..Len(field_names) |->
                IF field_names[i] = "class"
                THEN [attr |-> <<"class", "_">>, const |-> TRUE, value |-> cn]
                ELSE [attr |-> safe_name(field_names[i]), const |-> FALSE,
                      value |-> safe_name(field_names[i])]]
        init == [op |-> "__init__", params |-> safe_inits, field_inits |-> field_inits]
        fromDoc == [op |-> "fromDoc", classname |-> cn]
        class_check == [op |-> "class_check", class_ |-> cn]
        save == [op |-> "save"]
        save_class == [op |-> "save_class", class_ |-> cn]
    IN  IF abstract
        THEN [g EXCEPT !.out = @ \o <<header, [op |-> "pass"]>>,
                       !.serializer = <<>>,
                       !.current_class_is_abstract = TRUE]
        ELSE [out |-> g.out \o <<header, init, fromDoc>>
                        \o (IF "class" \in Range(field_names) THEN <<class_check>> ELSE <<>>),
              serializer |-> <<save>>
                        \o (IF "class" \in Range(field_names) THEN <<save_class>> ELSE <<>>),
              current_class_is_abstract |-> FALSE,
              idfield |-> idfield_arg]

\* variant: the id field is saved against the record's own id and every other
\* field against base_url
declare_field_own_id_base(name, fieldtype, doc, optional, g) ==
    IF g.current_class_is_abstract THEN g
    ELSE IF shortname(name) = "class" THEN g
    ELSE
        LET load == [op |-> "load_field", optional |-> optional,
                     safename |-> safe_name(name), fieldname |-> shortname(name),
                     fieldtype |-> fieldtype.name]
            baseurl == IF name = g.idfield
                       THEN <<"self.">> \o safe_name(g.idfield)
                       ELSE <<"base_url">>
            ser == IF fieldtype.is_uri
                   THEN [op |-> "save_relative_uri", safename |-> safe_name(name),
                         fieldname |-> shortname(name), baseurl |-> baseurl,
                         scoped_id |-> fieldtype.scoped_id, ref_scope |-> fieldtype.ref_scope]
                   ELSE [op |-> "save_field", safename |-> safe_name(name),
                         fieldname |-> shortname(name), baseurl |-> baseurl]
        IN  [g EXCEPT !.out = Append(@, load), !.serializer = Append(@, ser)]

\* PythonCodeGen.declare_field
declare_field(name, fieldtype, doc, optional, g) ==
    IF g.current_class_is_abstract THEN g
    ELSE IF shortname(name) = "class" THEN g
    ELSE
        LET load == [op |-> "load_field", optional |-> optional,
                     safename |-> safe_name(name), fieldname |-> shortname(name),
                     fieldtype |-> fieldtype.name]
            baseurl == IF name = g.idfield \/ g.idfield = ""
                       THEN <<"base_url">>
                       ELSE <<"self.">> \o safe_name(g.idfield)
            ser == IF fieldtype.is_uri
                   THEN [op |-> "save_relative_uri", safename |-> safe_name(name),
                         fieldname |-> shortname(name), baseurl |-> baseurl,
                         scoped_id |-> fieldtype.scoped_id, ref_scope |-> fieldtype.ref_scope]
                   ELSE [op |-> "save_field", safename |-> safe_name(name),
                         fieldname |-> shortname(name), baseurl |-> baseurl]
        IN  [g EXCEPT !.out = Append(@, load), !.serializer = Append(@, ser)]

\* variant: an absent id is synthesized whether or not the id is optional
declare_id_field_always_synth(name, fieldtype, doc, optional, g) ==
    IF g.current_class_is_abstract THEN g
    ELSE
        LET g1 == declare_field(name, fieldtype, doc, TRUE, g)
        IN  [g1 EXCEPT !.out = Append(@, [op |-> "id_default",
                                          safename |-> safe_name(name),
                                          opt |-> [stmt |-> "uuid4",
                                                   fieldname |-> shortname(name)]])]

\* PythonCodeGen.declare_id_field
declare_id_field(name, fieldtype, doc, optional, g) ==
    IF g.current_class_is_abstract THEN g
    ELSE
        LET g1 == declare_field(name, fieldtype, doc, TRUE, g)
            opt == IF optional
                   THEN [stmt |-> "uuid4", fieldname |-> shortname(name)]
                   ELSE [stmt |-> "raise", fieldname |-> shortname(name)]
        IN  [g1 EXCEPT !.out = Append(@, [op |-> "id_default",
                                          safename |-> safe_name(name), opt |-> opt])]

\* PythonCodeGen.end_class
end_class(classname, field_names, g) ==
    IF g.current_class_is_abstract THEN g
    ELSE
        LET scan == [op |-> "extension_fields", attrstr |-> field_names]
            raise == [op |-> "raise_errors", class_ |-> safe_name(classname)]
            ser == g.serializer \o
                   <<[op |-> "save_namespaces"], [op |-> "save_return"],
                     [op |-> "attrs", attrs |-> Range(field_names)]>>
            names == SelectSeq(field_names, NotClass)
            safe_inits == [i \in 1..Len(names) |-> safe_name(names[i])]
            return == [op |-> "return_cls", args |-> safe_inits]
        IN  [g EXCEPT !.out = @ \o <<scan, raise, return>> \o ser,
                      !.serializer = ser]

\* PythonCodeGen.epilogue: the vocabulary tables, one assignment name = init
\* per registered TypeDef, and the entry points over the root loader
epilogue(root_loader, g, st) ==
    [g EXCEPT !.out = @ \o
        <<[op |-> "_vocab", vocab |-> st.vocab],
          [op |-> "_rvocab",
           rvocab |-> [u \in Range(st.vocab) |->
                         CHOOSE k \in DOMAIN st.vocab : st.vocab[k] = u]],
          [op |-> "loaders", loaders |-> [n \in DOMAIN st.collected_types |->
                                            st.collected_types[n].init]],
          [op |-> "load_document", name |-> root_loader.name],
          [op |-> "load_document_by_string", name |-> root_loader.name]>>]

-----------------------------------------------------------------------------
(* Runtime values, errors and loaders (the support code the emitted unit    *)
(* calls)                                                                    *)

Instance(cls, slots, ext, lo) ==
    [t |-> "inst", cls |-> cls, slots |-> slots, extension_fields |-> ext,
     loadingOptions |-> lo]

\* a raw mapping: its keys in order and their values
Doc(keys, vals) == [keys |-> keys, vals |-> vals]
Get(d, k) == IF k \in DOMAIN d.vals THEN d.vals[k] ELSE None
Has(d, k) == k \in DOMAIN d.vals

NoExc == [kind |-> "none", msg |-> <<>>, children |-> <<>>]
ValidationException(msg, children) ==
    [kind |-> "ValidationException", msg |-> msg, children |-> children]
UnboundLocalError(var) ==
    [kind |-> "UnboundLocalError", msg |-> var, children |-> <<>>]

Loaded(v) == [ok |-> TRUE, val |-> v, err |-> NoExc]
Failed(e) == [ok |-> FALSE, val |-> None, err |-> e]

\* a URI text that has a scheme
IsAbsolute(url) == url # <<>> /\ url[1] \in {"file:///", "file:///doc", "file:///root", "_:"}

HasFragment(url) == "#" \in Range(url)

\* the directory a relative reference is resolved in
Dir(base) == IF base # <<>> /\ base[1] = "_:" THEN <<"_:">> ELSE <<"file:///">>

\* expand_url: an absolute text is returned unchanged; a relative reference
\* under a scoped id becomes (part of) the fragment of the base; any other
\* relative reference is resolved against the base's directory
expand_url(url, base, scoped_id) ==
    IF IsAbsolute(url) THEN url
    ELSE IF scoped_id
    THEN IF HasFragment(base) THEN base \o <<"/">> \o url ELSE base \o <<"#">> \o url
    ELSE Dir(base) \o url

\* the record types whose decode takes an absent value for an empty mapping
AcceptsAbsent == {<<"RecB">>}

\* the Python type a _PrimitiveLoader accepts, by the text of its argument
PrimAccepts(arg, val) ==
    CASE arg = <<"(str, str)">> -> val.t = "str"
      [] arg = <<"int">> -> val.t = "int"
      [] arg = <<"float">> -> val.t = "float"
      [] arg = <<"bool">> -> val.t = "bool"
      [] arg = <<"type(None)">> -> val.t = "null"
      [] OTHER -> FALSE

\* the value of an argument of a loader constructor call: a quoted text is a
\* str, the bare word None is None
PyLiteral(arg) ==
    IF Len(arg) >= 2 /\ arg[1] = "'" /\ arg[Len(arg)] = "'"
    THEN Str(SubSeq(arg, 2, Len(arg) - 1))
    ELSE None

\* bool(x) of a str or None
Truthy(x) == x # None /\ x # Str(<<>>) /\ x # Str(<<"">>)

\* _IdMapLoader.load, the expansion of a map-shaped value: each key becomes the
\* field mapSubject of its entry; an entry that is no mapping is wrapped under
\* mapPredicate, or rejected when there is none
RECURSIVE idmap_expand(_, _, _, _, _)
idmap_expand(keys, doc, mapSubject, mapPredicate, acc) ==
    IF keys = {} THEN [ok |-> TRUE, val |-> List(acc), err |-> <<>>]
    ELSE LET k == CHOOSE x \in keys : TRUE
             v == doc[k]
         IN  IF v.t = "map"
             THEN idmap_expand(keys \ {k}, doc, mapSubject, mapPredicate,
                      Append(acc, Map((mapSubject.v[1] :> Str(<<k>>)) @@ v.v)))
             ELSE IF Truthy(mapPredicate)
             THEN idmap_expand(keys \ {k}, doc, mapSubject, mapPredicate,
                      Append(acc, Map((mapSubject.v[1] :> Str(<<k>>))
                                          @@ (mapPredicate.v[1] :> v))))
             ELSE [ok |-> FALSE, val |-> None, err |-> <<"No mapPredicate">>]

RECURSIVE load(_, _, _, _)
RECURSIVE load_union(_, _, _, _, _)

\* _UnionLoader.load: the first alternative that decodes; else an error whose
\* children are the alternatives' errors
load_union(alts, val, baseuri, ct, errs) ==
    IF alts = <<>> THEN Failed(ValidationException(<<"">>, errs))
    ELSE LET r == load(Head(alts), val, baseuri, ct)
         IN  IF r.ok THEN r
             ELSE load_union(Tail(alts), val, baseuri, ct, Append(errs, r.err))

\* <loader>.load(val, baseuri, loadingOptions) of the loader named name, as the
\* epilogue defines it: name = init
load(name, val, baseuri, ct) ==
    LET init == ct[name].init
    IN  CASE init.loader = "_PrimitiveLoader" ->
                IF PrimAccepts(init.args[1], val) THEN Loaded(val)
                ELSE Failed(ValidationException(<<"Expected a ">> \o init.args[1], <<>>))
          [] init.loader = "_AnyLoader" ->
                IF val # None THEN Loaded(val)
                ELSE Failed(ValidationException(<<"Expected non-null">>, <<>>))
          [] init.loader = "_UnionLoader" ->
                load_union(init.args, val, baseuri, ct, <<>>)
          [] init.loader = "_RecordLoader" ->
                IF val.t = "map" \/ (val = None /\ init.args[1] \in AcceptsAbsent)
                THEN Loaded(Instance(init.args[1], <<>>, <<>>, <<>>))
                ELSE Failed(ValidationException(<<"Expected a dict">>, <<>>))
          [] init.loader = "_URILoader" ->
                IF val.t = "str"
                THEN load(init.args[1],
                          Str(expand_url(val.v, baseuri.v, init.args[2] = <<"True">>)),
                          baseuri, ct)
                ELSE load(init.args[1], val, baseuri, ct)
          [] init.loader = "_IdMapLoader" ->
                IF val.t = "map"
                THEN LET r == idmap_expand(DOMAIN val.v, val.v, PyLiteral(init.args[2]),
                                           PyLiteral(init.args[3]), <<>>)
                     IN  IF r.ok THEN load(init.args[1], r.val, baseuri, ct)
                         ELSE Failed(ValidationException(r.err, <<>>))
                ELSE load(init.args[1], val, baseuri, ct)
          [] OTHER -> Failed(ValidationException(<<"no loader">>, <<>>))

\* load_field(val, fieldtype, baseuri, loadingOptions)
load_field(val, fieldtype, baseuri, ct) == load(fieldtype, val, baseuri, ct)

-----------------------------------------------------------------------------
(* The emitted fromDoc, chunk by chunk.  A frame holds the call's arguments  *)
(* (doc, baseuri, docRoot), its local variables (locals: the variables the   *)
(* field chunks assign; a name outside its domain is unbound) and the        *)
(* exception that ended it.  calls logs the load_field calls.                *)

Frame(doc, baseuri, loadingOptions, docRoot) ==
    [doc |-> doc, baseuri |-> baseuri, loadingOptions |-> loadingOptions,
     docRoot |-> docRoot, base_in |-> baseuri,
     entry |-> "fromDoc", given |-> TRUE, lo_before |-> loadingOptions,
     copy_doc |-> Doc(<<>>, <<>>), errors__ |-> <<>>, locals |-> <<>>,
     extension_fields |-> <<>>, calls |-> <<>>, drawn |-> 0,
     exc |-> NoExc, ret |-> None]

\* LoadingOptions(): the document cache idx, the document the instance was
\* loaded from, the vocabulary and the declared namespaces
LoadingOptions(vc) == [idx |-> <<>>, original_doc |-> None, vocab |-> vc, namespaces |-> None]

NoFrame == Frame(Doc(<<>>, <<>>), None, LoadingOptions(<<>>), None)

\* the texts uuid4() returns, in the order drawn
Uuids == <<"uuid4-1st", "uuid4-2nd", "uuid4-3rd", "uuid4-4th">>

Bind(fr, var, val) == [fr EXCEPT !.locals = (var :> val) @@ @]

\* _doc = copy.copy(doc); _errors__ = [] (copy_doc and errors__ here)
exec_fromDoc(c, fr) == [fr EXCEPT !.copy_doc = fr.doc, !.errors__ = <<>>]

\* variant: the mismatch is collected with the field errors instead of raised
exec_class_check_collected(c, fr) ==
    IF Get(fr.copy_doc, "class") # Str(c.class_)
    THEN [fr EXCEPT !.errors__ =
              Append(@, ValidationException(<<"Not a ">> \o c.class_, <<>>))]
    ELSE fr

\* if copy_doc.get('class') != '<class_>': raise ValidationException("Not a <class_>")
exec_class_check(c, fr) ==
    IF Get(fr.copy_doc, "class") # Str(c.class_)
    THEN [fr EXCEPT !.exc = ValidationException(<<"Not a ">> \o c.class_, <<>>)]
    ELSE fr

\* variant: the first field that fails to decode ends the load
exec_load_field_abort(c, fr, ct) ==
    IF c.optional /\ ~Has(fr.copy_doc, c.fieldname)
    THEN Bind(fr, c.safename, None)
    ELSE LET val == Get(fr.copy_doc, c.fieldname)
             r == load_field(val, c.fieldtype, fr.baseuri, ct)
             call == [fieldname |-> c.fieldname, val |-> val, fieldtype |-> c.fieldtype,
                      baseuri |-> fr.baseuri, ok |-> r.ok, ret |-> r.val, err |-> r.err]
             logged == [fr EXCEPT !.calls = Append(@, call)]
         IN  IF r.ok THEN Bind(logged, c.safename, r.val)
             ELSE [logged EXCEPT !.exc =
                      ValidationException(
                          <<"the field is not valid because:", c.fieldname>>,
                          <<r.err>>)]

\* [if '<fieldname>' in copy_doc:] try: <safename> = load_field(...) except
\* ValidationException as e: errors__.append(...) [else: <safename> = None]
exec_load_field(c, fr, ct) ==
    IF c.optional /\ ~Has(fr.copy_doc, c.fieldname)
    THEN Bind(fr, c.safename, None)
    ELSE LET val == Get(fr.copy_doc, c.fieldname)
             r == load_field(val, c.fieldtype, fr.baseuri, ct)
             call == [fieldname |-> c.fieldname, val |-> val, fieldtype |-> c.fieldtype,
                      baseuri |-> fr.baseuri, ok |-> r.ok, ret |-> r.val, err |-> r.err]
             logged == [fr EXCEPT !.calls = Append(@, call)]
         IN  IF r.ok THEN Bind(logged, c.safename, r.val)
             ELSE [logged EXCEPT !.errors__ = Append(@,
                      ValidationException(
                          <<"the field is not valid because:", c.fieldname>>,
                          <<r.err>>))]

\* variant: the blank node id is drawn once, when the unit is generated
exec_id_default_fixed(c, fr, uuids) ==
    IF c.safename \notin DOMAIN fr.locals
    THEN [fr EXCEPT !.exc = UnboundLocalError(c.safename)]
    ELSE IF fr.locals[c.safename] # None
    THEN [fr EXCEPT !.baseuri = fr.locals[c.safename]]
    ELSE IF fr.docRoot # None
    THEN [Bind(fr, c.safename, fr.docRoot) EXCEPT !.baseuri = fr.docRoot]
    ELSE IF c.opt.stmt = "uuid4"
    THEN LET id == Str(<<"_:", Uuids[1]>>)
         IN  [Bind(fr, c.safename, id) EXCEPT !.baseuri = id]
    ELSE [fr EXCEPT !.exc = ValidationException(<<"Missing ", c.opt.fieldname>>, <<>>)]

\* variant: the id is settled but baseuri keeps the caller's value
exec_id_default_keep_base(c, fr, uuids) ==
    IF c.safename \notin DOMAIN fr.locals
    THEN [fr EXCEPT !.exc = UnboundLocalError(c.safename)]
    ELSE IF fr.locals[c.safename] # None
    THEN fr
    ELSE IF fr.docRoot # None
    THEN Bind(fr, c.safename, fr.docRoot)
    ELSE IF c.opt.stmt = "uuid4"
    THEN [Bind(fr, c.safename, Str(<<"_:", Uuids[uuids + 1]>>)) EXCEPT !.drawn = @ + 1]
    ELSE [fr EXCEPT !.exc = ValidationException(<<"Missing ", c.opt.fieldname>>, <<>>)]

\* if <safename> is None: if docRoot is not None: <safename> = docRoot
\* else: <opt>;  baseuri = <safename>.  uuids: the uuid4() values drawn before
exec_id_default(c, fr, uuids) ==
    IF c.safename \notin DOMAIN fr.locals
    THEN [fr EXCEPT !.exc = UnboundLocalError(c.safename)]
    ELSE IF fr.locals[c.safename] # None
    THEN [fr EXCEPT !.baseuri = fr.locals[c.safename]]
    ELSE IF fr.docRoot # None
    THEN [Bind(fr, c.safename, fr.docRoot) EXCEPT !.baseuri = fr.docRoot]
    ELSE IF c.opt.stmt = "uuid4"
    THEN LET id == Str(<<"_:", Uuids[uuids + 1]>>)
         IN  [Bind(fr, c.safename, id) EXCEPT !.baseuri = id, !.drawn = @ + 1]
    ELSE [fr EXCEPT !.exc = ValidationException(<<"Missing ", c.opt.fieldname>>, <<>>)]

\* ":" in k
HasColon(k) == k \in {"http://example.com/foo:bar", "http://example.com/baz:qux"}

\* expand_url(k, "", loadingOptions, scoped_id=False, vocab_term=False) of an
\* absolute key: unchanged
expand_key(k) == k

\* variant: the scan goes on after an invalid key
RECURSIVE scan_keys_no_break(_, _, _)
scan_keys_no_break(keys, fr, attrs) ==
    IF keys = <<>> THEN fr
    ELSE LET k == Head(keys)
         IN  IF k \in attrs THEN scan_keys_no_break(Tail(keys), fr, attrs)
             ELSE IF HasColon(k)
             THEN scan_keys_no_break(Tail(keys),
                            [fr EXCEPT !.extension_fields =
                                (expand_key(k) :> fr.copy_doc.vals[k]) @@ @],
                            attrs)
             ELSE scan_keys_no_break(Tail(keys),
                            [fr EXCEPT !.errors__ = Append(@,
                                ValidationException(<<"invalid field, expected one of:", k>>,
                                                    <<>>))],
                            attrs)

\* for k in copy_doc.keys(): if k not in cls.attrs: ... ; one pass over keys
RECURSIVE scan_keys(_, _, _)
scan_keys(keys, fr, attrs) ==
    IF keys = <<>> THEN fr
    ELSE LET k == Head(keys)
         IN  IF k \in attrs THEN scan_keys(Tail(keys), fr, attrs)
             ELSE IF HasColon(k)
             THEN scan_keys(Tail(keys),
                            [fr EXCEPT !.extension_fields =
                                (expand_key(k) :> fr.copy_doc.vals[k]) @@ @],
                            attrs)
             ELSE [fr EXCEPT !.errors__ = Append(@,
                      ValidationException(<<"invalid field, expected one of:", k>>,
                                          <<>>))]

exec_extension_fields(c, fr, attrs) ==
    scan_keys(fr.copy_doc.keys, [fr EXCEPT !.extension_fields = <<>>], attrs)

\* if errors__: raise ValidationException("Trying '<class_>'", None, errors__)
exec_raise_errors(c, fr) ==
    IF fr.errors__ # <<>>
    THEN [fr EXCEPT !.exc = ValidationException(<<"Trying '">> \o c.class_ \o <<"'">>,
                                                fr.errors__)]
    ELSE fr

\* cls.__init__(self, *args, extension_fields=..., loadingOptions=...): the
\* positional arguments bind the parameters in the order __init__ lists them
construct(init, cn, args, ext, lo) ==
    LET param == [i \in 1..Len(init.params) |-> init.params[i].name]
        bound == [n \in Range(param) |->
                     args[CHOOSE i \in 1..Len(param) : param[i] = n]]
        slots == [a \in {init.field_inits[i].attr : i \in 1..Len(init.field_inits)} |->
                     LET fi == init.field_inits[
                                  CHOOSE i \in 1..Len(init.field_inits) :
                                      init.field_inits[i].attr = a]
                     IN  IF fi.const THEN Str(fi.value) ELSE bound[fi.value]]
    IN  Instance(cn, slots, ext, lo)

\* loadingOptions = copy.deepcopy(loadingOptions); loadingOptions.original_doc
\* = copy_doc; return cls(<args>, extension_fields=extension_fields,
\* loadingOptions=loadingOptions)
exec_return_cls(c, fr, init, cn) ==
    IF \E i \in 1..Len(c.args) : c.args[i] \notin DOMAIN fr.locals
    THEN [fr EXCEPT !.exc = UnboundLocalError(
              c.args[CHOOSE i \in 1..Len(c.args) : c.args[i] \notin DOMAIN fr.locals])]
    ELSE [fr EXCEPT !.ret = construct(init, cn,
                                      [i \in 1..Len(c.args) |-> fr.locals[c.args[i]]],
                                      fr.extension_fields,
                                      [fr.loadingOptions EXCEPT
                                           !.original_doc = fr.copy_doc])]

-----------------------------------------------------------------------------
(* The emitted save, chunk by chunk.  sv holds the mapping r built so far    *)
(* and logs the calls of save_relative_uri and save with the base they got.  *)

\* r[k] = v
SetKey(d, k, v) ==
    Doc(IF k \in Range(d.keys) THEN d.keys ELSE Append(d.keys, k), (k :> v) @@ d.vals)

\* prefix_url(ef, vocab): the full vocabulary form of an extension key
prefix_url(url, vc) == IF url \in DOMAIN vc THEN vc[url] ELSE url

\* save(val, top=False, base_url, relative_uris) of a field value: a record
\* instance saves itself (the nested records of the model have no fields), any
\* other value is returned as it is
save_value(val) == IF val.t = "inst" THEN Map(<<>>) ELSE val

\* the greatest element of a non-empty set of numbers
Max(S) == CHOOSE x \in S : \A y \in S : y <= x

\* save_relative_uri: the shortest relative text that expand_url resolves to
\* uri under base_url; uri itself when there is none or relative_uris is false
save_relative_uri(uri, base_url, scoped_id, ref_scope, relative_uris) ==
    IF uri.t # "str" THEN save_value(uri)
    ELSE IF ~relative_uris \/ uri = base_url \/ base_url.t # "str" THEN uri
    ELSE LET Suffix(i) == SubSeq(uri.v, i, Len(uri.v))
             cands == {i \in 2..Len(uri.v) :
                          /\ ~IsAbsolute(Suffix(i))
                          /\ expand_url(Suffix(i), base_url.v, scoped_id) = uri.v}
         IN  IF cands = {} THEN uri ELSE Str(Suffix(Max(cands)))

SaveState(r, calls) == [r |-> r, calls |-> calls]

\* the value of the emitted base expression: base_url or self.<idfield>
BaseOf(baseurl, self, base_url) ==
    IF baseurl = <<"base_url">> THEN base_url ELSE self.slots[Tail(baseurl)]

\* variant: the extension fields are left out of the saved mapping
exec_save_no_extension(c, sv, self, keys) == sv

\* r = CommentedMap(); for ef in self.extension_fields:
\*     r[prefix_url(ef, self.loadingOptions.vocab)] = self.extension_fields[ef]
RECURSIVE exec_save(_, _, _, _)
exec_save(c, sv, self, keys) ==
    IF keys = {} THEN sv
    ELSE LET ef == CHOOSE k \in keys : TRUE
         IN  exec_save(c,
                       [sv EXCEPT !.r = SetKey(@, prefix_url(ef, self.loadingOptions.vocab),
                                               self.extension_fields[ef])],
                       self, keys \ {ef})

\* r['class'] = '<class_>'
exec_save_class(c, sv) == [sv EXCEPT !.r = SetKey(@, "class", Str(c.class_))]

\* if self.<safename> is not None: u = save_relative_uri(self.<safename>,
\* <baseurl>, <scoped_id>, <ref_scope>, relative_uris); if u: r['<fieldname>'] = u
exec_save_relative_uri(c, sv, self, base_url, relative_uris) ==
    IF self.slots[c.safename] = None THEN sv
    ELSE LET base == BaseOf(c.baseurl, self, base_url)
             u == save_relative_uri(self.slots[c.safename], base, c.scoped_id,
                                    c.ref_scope, relative_uris)
             call == [fieldname |-> c.fieldname, fn |-> "save_relative_uri",
                      base |-> base]
         IN  [r |-> IF Truthy(u) THEN SetKey(sv.r, c.fieldname, u) ELSE sv.r,
              calls |-> Append(sv.calls, call)]

\* if self.<safename> is not None: r['<fieldname>'] = save(self.<safename>,
\* top=False, base_url=<baseurl>, relative_uris=relative_uris)
exec_save_field(c, sv, self, base_url, relative_uris) ==
    IF self.slots[c.safename] = None THEN sv
    ELSE LET base == BaseOf(c.baseurl, self, base_url)
             call == [fieldname |-> c.fieldname, fn |-> "save", base |-> base]
         IN  [r |-> SetKey(sv.r, c.fieldname, save_value(self.slots[c.safename])),
              calls |-> Append(sv.calls, call)]

\* if top and self.loadingOptions.namespaces: r["$namespaces"] = ...
exec_save_namespaces(c, sv, self, top) ==
    IF top /\ self.loadingOptions.namespaces # None
    THEN [sv EXCEPT !.r = SetKey(@, "$namespaces", self.loadingOptions.namespaces)]
    ELSE sv

\* self.save(top, base_url, relative_uris): the chunks of the serializer in
\* order, up to return r
RECURSIVE run_save(_, _, _, _, _, _)
run_save(chunks, sv, self, top, base_url, relative_uris) ==
    IF chunks = <<>> THEN sv
    ELSE LET c == Head(chunks)
             rest == Tail(chunks)
         IN  CASE c.op = "save" ->
                    run_save(rest,
                             exec_save(c, SaveState(Doc(<<>>, <<>>), <<>>), self,
                                       DOMAIN self.extension_fields),
                             self, top, base_url, relative_uris)
               [] c.op = "save_class" ->
                    run_save(rest, exec_save_class(c, sv), self, top, base_url,
                             relative_uris)
               [] c.op = "save_relative_uri" ->
                    run_save(rest,
                             exec_save_relative_uri(c, sv, self, base_url, relative_uris),
                             self, top, base_url, relative_uris)
               [] c.op = "save_field" ->
                    run_save(rest, exec_save_field(c, sv, self, base_url, relative_uris),
                             self, top, base_url, relative_uris)
               [] c.op = "save_namespaces" ->
                    run_save(rest, exec_save_namespaces(c, sv, self, top), self, top,
                             base_url, relative_uris)
               [] c.op = "save_return" -> sv
               [] OTHER -> run_save(rest, sv, self, top, base_url, relative_uris)

-----------------------------------------------------------------------------
(* makedoc: the table of contents.  The markup self.toc is a sequence of
   tags; the text between the tags of an entry is kept as the tag "<a>". *)

\* ToC.__init__; skip is the local variable of the number_headings call made
\* on the object, lines counts add_entry calls and number_headings lines, nums
\* holds the numbers add_entry returned, page what contents returned
ToC ==
    [first_toc_entry |-> TRUE, numbering |-> <<0>>, toc |-> <<>>,
     start_numbering |-> TRUE, skip |-> FALSE, lines |-> 0, entries |-> 0,
     nums |-> <<>>, page |-> <<>>, pc |-> "open"]

\* n times the tags "</li></ol>"
RECURSIVE close_lists(_)
close_lists(n) == IF n <= 0 THEN <<>> ELSE <<"</li>", "</ol>">> \o close_lists(n - 1)

\* numbering[-1] += 1
bump_last(numbering) == [numbering EXCEPT ![Len(numbering)] = @ + 1]

\* ToC.add_entry(thisdepth, title): the object after the call; the number
\* returned is the last of nums, the list of the numbering's components
add_entry(o, thisdepth, title) ==
    LET depth == Len(o.numbering)
        o1 == IF thisdepth < depth THEN
                  [o EXCEPT !.toc = @ \o <<"</ol>">> \o close_lists(depth - thisdepth),
                            !.numbering = bump_last(SubSeq(@, 1, thisdepth))]
              ELSE IF thisdepth = depth THEN
                  [o EXCEPT !.toc = IF o.first_toc_entry THEN @ ELSE @ \o <<"</ol>">>,
                            !.first_toc_entry = FALSE,
                            !.numbering = bump_last(@)]
              ELSE [o EXCEPT !.numbering = Append(@, 1)]
        num == IF o1.start_numbering THEN o1.numbering ELSE <<>>
    IN  [o1 EXCEPT !.toc = @ \o <<"<li>", "<a>", "<ol>">>,
                   !.nums = Append(@, num),
                   !.entries = @ + 1]

\* ToC.contents(idn)
contents(o, idn) ==
    <<"<h1>", "<nav>", "<ol>">> \o o.toc \o <<"</ol>">>
        \o close_lists(Len(o.numbering)) \o <<"</nav>">>

\* the lines of a document given to number_headings: a heading of some
\* level, the heading "# Introduction", a code fence, running text
Heading(level, title) == [kind |-> "heading", level |-> level, title |-> title]
DocLines ==
    {Heading(d, "Title") : d \in 1..MaxDepth} \cup {Heading(1, "Introduction")}
        \cup {[kind |-> "fence", level |-> 0, title |-> ""],
              [kind |-> "text", level |-> 0, title |-> ""]}

\* number_headings(toc, maindoc), one pass of the loop over the lines
number_line(o, line) ==
    LET o1 == IF line = Heading(1, "Introduction")
              THEN [o EXCEPT !.start_numbering = TRUE, !.numbering = <<0>>]
              ELSE o
        o2 == IF line.kind = "fence" THEN [o1 EXCEPT !.skip = ~@] ELSE o1
    IN  IF ~o2.skip /\ line.kind = "heading"
        THEN add_entry(o2, line.level, line.title)
        ELSE o2

-----------------------------------------------------------------------------
(* makedoc: the index that RenderType.__init__ builds over a type list, and
   the lookups that render_type makes in it *)

DocAUrl == "https://example.com/d#A"
DocBUrl == "https://example.com/d#B"
DocCUrl == "https://example.com/d#C"
DocNames == {DocAUrl, DocBUrl, DocCUrl}

\* the name of the one field a record type of the type lists declares itself
DocFieldUrl ==
    (DocAUrl :> "https://example.com/d#A/f") @@ (DocBUrl :> "https://example.com/d#B/f")
        @@ (DocCUrl :> "https://example.com/d#C/f")

\* urllib.parse.urldefrag(url)[1], the fragment of a URL
urldefrag(url) ==
    CASE url = DocAUrl -> "A"
      [] url = DocBUrl -> "B"
      [] url = DocCUrl -> "C"
      [] url = DocFieldUrl[DocAUrl] -> "A/f"
      [] url = DocFieldUrl[DocBUrl] -> "B/f"
      [] url = DocFieldUrl[DocCUrl] -> "C/f"
      [] OTHER -> ""

basicTypes ==
    {"https://w3id.org/cwl/salad#null", "http://www.w3.org/2001/XMLSchema#boolean",
     "http://www.w3.org/2001/XMLSchema#int", "http://www.w3.org/2001/XMLSchema#long",
     "http://www.w3.org/2001/XMLSchema#float", "http://www.w3.org/2001/XMLSchema#double",
     "http://www.w3.org/2001/XMLSchema#string", "https://w3id.org/cwl/salad#record",
     "https://w3id.org/cwl/salad#enum", "https://w3id.org/cwl/salad#array"}

\* a type of the list j; extends = <<>>, docParent = "" and docAfter = "" stand
\* for a mapping without that key
DocType(name, type, extends, docParent, docChild, docAfter, fields, abstract) ==
    [name |-> name, type |-> type, extends |-> extends, docParent |-> docParent,
     docChild |-> docChild, docAfter |-> docAfter, fields |-> fields,
     abstract |-> abstract]

DocField(name, type) == [name |-> name, type |-> type]

\* has_types(items)
RECURSIVE has_types(_)
has_types(items) ==
    IF items.k = "list"
    THEN IF items.alts = <<>> THEN <<>>
         ELSE has_types(Head(items.alts)) \o has_types(ListDecl(Tail(items.alts)))
    ELSE <<items.s>>

\* utils.add_dictlist(di, key, val)
add_dictlist(di, key, val) ==
    IF key \in DOMAIN di THEN [di EXCEPT ![key] = Append(@, val)]
    ELSE di @@ (key :> <<val>>)

\* for e in keys: add_dictlist(di, e, val)
RECURSIVE add_under_each(_, _, _)
add_under_each(di, keys, val) ==
    IF keys = <<>> THEN di
    ELSE add_under_each(add_dictlist(di, Head(keys), val), Tail(keys), val)

\* for c in vals: add_dictlist(di, key, c)
RECURSIVE add_each_under(_, _, _)
add_each_under(di, key, vals) ==
    IF vals = <<>> THEN di
    ELSE add_each_under(add_dictlist(di, key, Head(vals)), key, Tail(vals))

\* di[key] = val
Put(di, key, val) == [x \in DOMAIN di \cup {key} |-> IF x = key THEN val ELSE di[x]]

\* di.get(key, [])
GetList(di, key) == IF key \in DOMAIN di THEN di[key] ELSE <<>>

\* the type of list j with the given name
TypeNamed(j, name) == j[CHOOSE i \in 1..Len(j) : j[i].name = name]

\* the fields of the named types and of their ancestors, ancestors first
RECURSIVE inherited_fields(_, _, _)
inherited_fields(j, names, fuel) ==
    IF names = <<>> \/ fuel = 0 THEN <<>>
    ELSE LET t == TypeNamed(j, Head(names))
         IN  inherited_fields(j, t.extends, fuel - 1) \o t.fields
                 \o inherited_fields(j, Tail(names), fuel)

\* schema.extend_and_specialize(j, loader): the same types in the same order,
\* each a new mapping with the fields of its ancestors before its own
extend_and_specialize(j) ==
    [i \in 1..Len(j) |->
        [j[i] EXCEPT !.fields = inherited_fields(j, j[i].extends, Len(j)) \o @]]

\* a reference to a mapping of the list j or of the list alltypes
Ref(list, i) == [list |-> list, i |-> i]
NoRef == Ref("none", 0)
Deref(r, ref) == IF ref.list = "j" THEN r.j[ref.i] ELSE r.alltypes[ref.i]

\* RenderType.__init__'s attributes and local variables; t is the loop
\* variable of the first loop, which keeps its last value after the loop
RenderType(j, renderlist, redirects) ==
    [pc |-> "index", j |-> j, renderlist |-> renderlist, redirects |-> redirects,
     subs |-> <<>>, docParent |-> <<>>, docAfter |-> <<>>, rendered |-> {},
     alltypes |-> <<>>, typemap |-> <<>>, uses |-> <<>>, record_refs |-> <<>>,
     t |-> NoRef, entry |-> 1, wrapped |-> {}, headings |-> <<>>, lookups |-> <<>>,
     exc |-> "none"]

NoRenderType == [RenderType(<<>>, {}, <<>>) EXCEPT !.pc = "none"]

\* RenderType.__init__, the loop over j
RECURSIVE index_relations(_, _)
index_relations(r, i) ==
    IF i > Len(r.j) THEN r
    ELSE LET t == r.j[i]
             subs == add_under_each(r.subs, t.extends, t.name)
             dp1 == IF t.docParent # ""
                    THEN add_dictlist(r.docParent, t.docParent, t.name)
                    ELSE r.docParent
             dp2 == add_each_under(dp1, t.name, t.docChild)
             da == IF t.docAfter # ""
                   THEN add_dictlist(r.docAfter, t.docAfter, t.name)
                   ELSE r.docAfter
         IN  index_relations([r EXCEPT !.subs = subs, !.docParent = dp2,
                                       !.docAfter = da, !.t = Ref("j", i)],
                             i + 1)

\* RenderType.__init__, the loop over the types p of one field f of t
RECURSIVE index_field_types(_, _, _, _)
index_field_types(r, t, f, p) ==
    IF p = <<>> THEN r
    ELSE LET tp == Head(p)
             u1 == IF tp \notin DOMAIN r.uses THEN Put(r.uses, tp, <<>>) ELSE r.uses
             u2 == IF <<t.name, f.name>> \notin Range(u1[tp])
                   THEN [u1 EXCEPT ![tp] = Append(@, <<urldefrag(t.name), urldefrag(f.name)>>)]
                   ELSE u1
             rr == IF tp \notin basicTypes /\ tp \notin Range(r.record_refs[t.name])
                   THEN [r.record_refs EXCEPT ![t.name] = Append(@, tp)]
                   ELSE r.record_refs
         IN  index_field_types([r EXCEPT !.uses = u2, !.record_refs = rr], t, f, Tail(p))

\* RenderType.__init__, the loop over the fields of t
RECURSIVE index_fields(_, _, _)
index_fields(r, t, n) ==
    IF n > Len(t.fields) THEN r
    ELSE index_fields(index_field_types(r, t, t.fields[n], has_types(t.fields[n].type)),
                      t, n + 1)

\* RenderType.__init__, the body of the loop over alltypes
index_entry(r) ==
    LET t == Deref(r, r.t)
        r1 == [r EXCEPT !.typemap = Put(@, t.name, r.t)]
    IN  IF t.type = "record"
        THEN index_fields([r1 EXCEPT !.record_refs = Put(@, t.name, <<>>)], t, 1)
        ELSE r1

\* self.typemap[key]
Lookup(r, key, for) ==
    [r EXCEPT !.lookups = Append(@, [key |-> key, for |-> for]),
              !.exc = IF key \in DOMAIN r.typemap THEN @ ELSE "KeyError"]

\* render_type's local function extendsfrom(item, ex)
RECURSIVE extendsfrom(_, _)
extendsfrom(r, extends) ==
    IF extends = <<>> \/ r.exc # "none" THEN r
    ELSE LET r1 == Lookup(r, Head(extends), "extends")
         IN  IF r1.exc # "none" THEN r1
             ELSE extendsfrom(
                      extendsfrom(r1, Deref(r1, r1.typemap[Head(extends)]).extends),
                      Tail(extends))

\* RenderType.render_type(f, depth), and its loops over subs and over docAfter
RECURSIVE render_type(_, _, _)
RECURSIVE render_each(_, _, _, _)
render_each(r, names, depth, for) ==
    IF names = <<>> \/ r.exc # "none" THEN r
    ELSE LET r1 == Lookup(r, Head(names), for)
         IN  IF r1.exc # "none" THEN r1
             ELSE render_each(render_type(r1, r1.typemap[Head(names)], depth),
                              Tail(names), depth, for)

render_type(r, ref, depth) ==
    LET f == Deref(r, ref)
    IN  IF f.name \in r.rendered \/ f.name \in DOMAIN r.redirects THEN r
        ELSE LET r1 == [r EXCEPT !.rendered = @ \cup {f.name}]
             IN  IF f.abstract THEN r1
                 ELSE LET r2 == extendsfrom([r1 EXCEPT !.wrapped = @ \cup {ref}], f.extends)
                      IN  IF r2.exc # "none" THEN r2
                          ELSE LET r3 == [r2 EXCEPT !.headings =
                                             Append(@, <<depth, urldefrag(f.name)>>)]
                                   subs == GetList(r3.docParent, f.name)
                                               \o GetList(r3.record_refs, f.name)
                                   r4 == IF Len(subs) = 1
                                         THEN render_each(r3, subs, depth, "subs")
                                         ELSE render_each(r3, subs, depth + 1, "subs")
                               IN  render_each(r4, GetList(r4.docAfter, f.name), depth,
                                               "docAfter")

\* RenderType.__init__, the condition of the last loop over alltypes
IsRoot(r, entry) ==
    \/ entry.name \in r.renderlist
    \/ /\ r.renderlist = {}
       /\ entry.extends = <<>>
       /\ entry.docParent = ""
       /\ entry.docAfter = ""

-----------------------------------------------------------------------------
(* The state machine *)

vars == <<collected_types, vocab, nextOid, prologue_done, returned,
          out, serializer, current_class_is_abstract, idfield, rec, emit_pc, next_field,
          pc, frame, uuid_count, loads, applied, saved, rt, toc>>

CurrentGen == GenState(collected_types, vocab, nextOid)

CurrentEmit == Gen(out, serializer, current_class_is_abstract, idfield)

NoRec == [fields |-> <<>>, optional |-> {}, abstract |-> FALSE]

Init ==
    /\ collected_types = <<>>
    /\ vocab = <<>>
    /\ nextOid = FirstOid
    /\ prologue_done = FALSE
    /\ returned = <<>>
    /\ out = <<>>
    /\ serializer = <<>>
    /\ current_class_is_abstract = FALSE
    /\ idfield = ""
    /\ rec = NoRec
    /\ emit_pc = "begin"
    /\ next_field = 1
    /\ pc = 0
    /\ frame = NoFrame
    /\ uuid_count = 0
    /\ loads = <<>>
    /\ applied = <<>>
    /\ saved = <<>>
    /\ rt = NoRenderType
    /\ toc = ToC

SetGen(st) ==
    /\ collected_types' = st.collected_types
    /\ vocab' = st.vocab
    /\ nextOid' = st.nextOid

SetEmit(g) ==
    /\ out' = g.out
    /\ serializer' = g.serializer
    /\ current_class_is_abstract' = g.current_class_is_abstract
    /\ idfield' = g.idfield

\* prologue(): writes the support code and declares the primitives
Prologue ==
    /\ ~prologue_done
    /\ SetGen(prologue(CurrentGen))
    /\ out' = Append(out, [op |-> "support"])
    /\ prologue_done' = TRUE
    /\ UNCHANGED <<returned, serializer, current_class_is_abstract, idfield, rec,
                   emit_pc, next_field>>
    /\ UNCHANGED loadVars
    /\ UNCHANGED restVars

\* one top-level call type_loader(d); an exception leaves what the call had
\* already registered
Compile(d) ==
    /\ prologue_done
    /\ Len(returned) < MaxCalls
    /\ LET r == type_loader(d, CurrentGen)
       IN  /\ SetGen(r.st)
           /\ returned' = Append(returned,
                  [decl |-> d, exc |-> r.exc, ret |-> r.ret,
                   before |-> [collected_types |-> collected_types, vocab |-> vocab],
                   after |-> [collected_types |-> r.st.collected_types,
                              vocab |-> r.st.vocab]])
    /\ UNCHANGED prologue_done
    /\ UNCHANGED emitVars
    /\ UNCHANGED loadVars
    /\ UNCHANGED restVars

TypeLoaderCall == \E d \in CompileDecls : Compile(d)

TypeLoaderNested == \E d \in NestedDecls : Compile(d)

(* Requests for wrapping loaders.  A request names the declaration of the
   inner type, which is compiled first, and the metadata of the field. *)

UriRequest(inner, scoped_id, vocab_term, ref_scope) ==
    [k |-> "uri", inner |-> inner, scoped_id |-> scoped_id, vocab_term |-> vocab_term,
     ref_scope |-> ref_scope]
IdmapRequest(field, inner, map_subject, map_predicate) ==
    [k |-> "idmap", field |-> field, inner |-> inner, map_subject |-> map_subject,
     map_predicate |-> map_predicate]
TypedslRequest(inner, ref_scope) ==
    [k |-> "typedsl", inner |-> inner, ref_scope |-> ref_scope]

RefScopes == {<<"None">>, <<"0">>}

UriRequests ==
    {UriRequest(StrDecl(XsdString), s, v, r) : s \in BOOLEAN, v \in BOOLEAN, r \in RefScopes}

MapSubjects == {Str(<<"name">>), Str(<<"id">>)}
MapPredicates == {None, Str(<<"type">>), Str(<<"value">>)}

IdmapRequests ==
    {IdmapRequest(f, StrDecl(SaladAny), ms, mp) :
        f \in {AFieldUrl, BFieldUrl}, ms \in MapSubjects, mp \in MapPredicates}

TypedslRequests == {TypedslRequest(StrDecl(XsdString), r) : r \in RefScopes}

\* an enum and a record declared under one name
SameNameDecls == {EnumDecl(RecAUrl, <<SymXUrl>>), RecordDecl(RecAUrl)}

\* the request q made of the generator in state st
request(q, st) ==
    IF q.k \in {"uri", "idmap", "typedsl"}
    THEN LET t == type_loader(q.inner, st)
         IN  IF t.exc # "none" THEN t
             ELSE IF q.k = "uri"
             THEN uri_loader(t.ret, q.scoped_id, q.vocab_term, q.ref_scope, t.st)
             ELSE IF q.k = "idmap"
             THEN idmap_loader(q.field, t.ret, q.map_subject, q.map_predicate, t.st)
             ELSE typedsl_loader(t.ret, q.ref_scope, t.st)
    ELSE type_loader(q, st)

Request(q) ==
    /\ prologue_done
    /\ Len(returned) < MaxCalls
    /\ LET r == request(q, CurrentGen)
       IN  /\ SetGen(r.st)
           /\ returned' = Append(returned,
                  [decl |-> q, exc |-> r.exc, ret |-> r.ret,
                   before |-> [collected_types |-> collected_types, vocab |-> vocab],
                   after |-> [collected_types |-> r.st.collected_types,
                              vocab |-> r.st.vocab]])
    /\ UNCHANGED prologue_done
    /\ UNCHANGED emitVars
    /\ UNCHANGED loadVars
    /\ UNCHANGED restVars

UriLoaderCall == \E q \in UriRequests : Request(q)

IdmapLoaderCall == \E q \in IdmapRequests : Request(q)

TypedslLoaderCall == \E q \in TypedslRequests : Request(q)

SameNameCall == \E q \in SameNameDecls : Request(q)

\* the map-shaped values decoded with an id-map loader: one entry, whose value
\* is a scalar or a mapping
IdmapValues ==
    {Map("k1" :> Str(<<"s">>)), Map("k1" :> Map("type" :> Str(<<"s">>)))}

\* <loader>.load(val, baseuri, loadingOptions) for the loader that the i-th
\* request returned
IdmapLoad ==
    /\ Len(applied) < MaxApplied
    /\ \E i \in 1..Len(returned), val \in IdmapValues :
          /\ returned[i].exc = "none"
          /\ returned[i].decl.k = "idmap"
          /\ LET r == load(returned[i].ret.name, val, Str(<<"file:///doc">>),
                           collected_types)
             IN  applied' = Append(applied,
                     [call |-> i, val |-> val, ok |-> r.ok, ret |-> r.val, err |-> r.err])
    /\ UNCHANGED <<saved, rt, toc>>
    /\ UNCHANGED compileVars
    /\ UNCHANGED emitVars
    /\ UNCHANGED loadVars

(* The caller of the emitter (codegen.codegen), per record: begin_class, then
   declare_id_field for the id field, then declare_field for every other
   field in declaration order, then end_class. *)

FieldNames == {"class", "id", "a", "b"}

FieldUrl(f) ==
    CASE f = "class" -> ClassFieldUrl
      [] f = "id" -> IdFieldUrl
      [] f = "a" -> AFieldUrl
      [] f = "b" -> BFieldUrl
      [] f = "u" -> UFieldUrl
      [] f = "r" -> RFieldUrl

\* the declared type of each field
FieldDecl(f) ==
    CASE f = "a" -> StrDecl(XsdString)
      [] f = "b" -> ListDecl(<<StrDecl(SaladNull), RecordDecl(RecAUrl), RecordDecl(RecBUrl)>>)
      [] f = "r" -> StrDecl(RecUrl)
      [] OTHER -> StrDecl(XsdString)

NoDup(s) == \A i, j \in DOMAIN s : s[i] = s[j] => i = j

\* the field lists of the records emitted: any fields in any order, the
\* class discriminator first when there is one
RecFieldLists ==
    {<<>>} \cup
    {s \in SeqsUpTo(FieldNames, Cardinality(FieldNames)) :
        NoDup(s) /\ \A i \in DOMAIN s : s[i] = "class" => i = 1}

NotId(f) == f # "id"

OtherFields(r) == SelectSeq(r.fields, NotId)

BeginClass ==
    /\ prologue_done
    /\ emit_pc = "begin"
    /\ \E fields \in RecFieldLists, abstract \in BOOLEAN :
       \E optional \in SUBSET (Range(fields) \ {"class"}) :
          /\ rec' = [fields |-> fields, optional |-> optional, abstract |-> abstract]
          /\ SetEmit(begin_class(RecUrl, <<>>, "", abstract, fields,
                                 IF "id" \in Range(fields) THEN IdFieldUrl ELSE "",
                                 optional, CurrentEmit))
          /\ emit_pc' = IF "id" \in Range(fields) THEN "id" ELSE "fields"
    /\ next_field' = 1
    /\ UNCHANGED compileVars
    /\ UNCHANGED loadVars
    /\ UNCHANGED restVars

DeclareIdField ==
    /\ emit_pc = "id"
    /\ LET t == type_loader(FieldDecl("id"), CurrentGen)
           u == uri_loader(t.ret, TRUE, FALSE, <<"None">>, t.st)
       IN  /\ SetGen(u.st)
           /\ SetEmit(declare_id_field(IdFieldUrl, u.ret, "", "id" \in rec.optional,
                                       CurrentEmit))
    /\ emit_pc' = "fields"
    /\ UNCHANGED <<prologue_done, returned, rec, next_field>>
    /\ UNCHANGED loadVars
    /\ UNCHANGED restVars

\* the fields whose values are URIs (jsonldPredicate _type: @id), and the
\* fields whose type is a reference to a record by its name
UriFields == {"u"}
ByNameFields == {"r"}

\* the loader of field f: its declared type compiled, wrapped in a URI loader
\* for a URI field
field_loader(f, st) ==
    LET t == type_loader(FieldDecl(f), st)
    IN  IF t.exc = "none" /\ f \in UriFields
        THEN uri_loader(t.ret, FALSE, FALSE, <<"None">>, t.st)
        ELSE t

\* a field whose type fails to compile aborts the generation
DeclareField ==
    /\ emit_pc = "fields"
    /\ next_field <= Len(OtherFields(rec))
    /\ LET f == OtherFields(rec)[next_field]
           t == field_loader(f, CurrentGen)
       IN  /\ SetGen(t.st)
           /\ IF t.exc = "none"
              THEN /\ SetEmit(declare_field(FieldUrl(f), t.ret, "", f \in rec.optional,
                                           CurrentEmit))
                   /\ emit_pc' = emit_pc
              ELSE /\ UNCHANGED <<out, serializer, current_class_is_abstract, idfield>>
                   /\ emit_pc' = "aborted"
           /\ returned' =
                 IF f \in ByNameFields
                 THEN Append(returned,
                         [decl |-> FieldDecl(f), exc |-> t.exc, ret |-> t.ret,
                          before |-> [collected_types |-> collected_types, vocab |-> vocab],
                          after |-> [collected_types |-> t.st.collected_types,
                                     vocab |-> t.st.vocab],
                          during |-> emit_pc])
                 ELSE returned
    /\ next_field' = next_field + 1
    /\ UNCHANGED <<prologue_done, rec>>
    /\ UNCHANGED loadVars
    /\ UNCHANGED restVars

EndClass ==
    /\ emit_pc = "fields"
    /\ next_field > Len(OtherFields(rec))
    /\ SetEmit(end_class(RecUrl, rec.fields, CurrentEmit))
    /\ emit_pc' = "done"
    /\ UNCHANGED <<rec, next_field>>
    /\ UNCHANGED compileVars
    /\ UNCHANGED loadVars
    /\ UNCHANGED restVars

(* Calls of the emitted fromDoc *)

BaseUri == Str(<<"file:///doc">>)
DocRoot == Str(<<"file:///root">>)
ExtensionKey == "http://example.com/foo:bar"
ExtensionKey2 == "http://example.com/baz:qux"

RawValue(k, choice) ==
    IF choice = "good"
    THEN CASE k = "class" -> Str(<<"Rec">>)
           [] k = "id" -> Str(<<"x">>)
           [] k = "a" -> Str(<<"va">>)
           [] k = "b" -> Map(<<>>)
           [] k = "u" -> Str(<<"y">>)
           [] k = "r" -> Map(<<>>)
    ELSE CASE k = "class" -> Str(<<"Other">>)
           [] OTHER -> Num(7)

\* the raw mapping that gives each declared field the chosen value and has the
\* extra keys given
MakeDoc(fields, choice, extra) ==
    LET Present(k) == choice[k] # "absent"
        keys == SelectSeq(fields, Present) \o extra
    IN  Doc(keys, [k \in Range(keys) |->
                      IF k \in Range(extra) THEN Str(<<"ev">>) ELSE RawValue(k, choice[k])])

ExtraKeys ==
    {<<>>, <<"bogus">>, <<ExtensionKey>>,
     <<ExtensionKey, "bogus", "bogus2", ExtensionKey2>>}

IndexOf(op) == CHOOSE i \in 1..Len(out) : out[i].op = op

Running(op) == pc > 0 /\ out[pc].op = op

StartLoad ==
    /\ emit_pc = "done"
    /\ ~rec.abstract
    /\ pc = 0
    /\ loads = <<>>
    /\ \E choice \in [Range(rec.fields) -> {"absent", "good", "bad"}],
          extra \in ExtraKeys, docRoot \in {None, DocRoot} :
          frame' = Frame(MakeDoc(rec.fields, choice, extra), BaseUri,
                         LoadingOptions(vocab), docRoot)
    /\ pc' = IndexOf("fromDoc")
    /\ UNCHANGED <<uuid_count, loads>>
    /\ UNCHANGED compileVars
    /\ UNCHANGED emitVars
    /\ UNCHANGED restVars

\* a second, independent call with the arguments of the first
Reload ==
    /\ pc = 0
    /\ Len(loads) >= 1
    /\ Len(loads) < MaxLoads
    /\ frame' = Frame(loads[1].doc, loads[1].base_in, loads[1].lo_before,
                      loads[1].docRoot)
    /\ pc' = IndexOf("fromDoc")
    /\ UNCHANGED <<uuid_count, loads>>
    /\ UNCHANGED compileVars
    /\ UNCHANGED emitVars
    /\ UNCHANGED restVars

\* the chunk at pc has run and left the frame fr: the call ends when it
\* raised or returned, else control falls through to the next chunk
Continue(fr) ==
    /\ IF fr.exc.kind # "none" \/ out[pc].op = "return_cls"
       THEN /\ pc' = 0
            /\ loads' = Append(loads, fr)
            /\ frame' = NoFrame
       ELSE /\ pc' = pc + 1
            /\ loads' = loads
            /\ frame' = fr
    /\ uuid_count' = uuid_count + (fr.drawn - frame.drawn)
    /\ UNCHANGED compileVars
    /\ UNCHANGED emitVars
    /\ UNCHANGED restVars

StepFromDoc == Running("fromDoc") /\ Continue(exec_fromDoc(out[pc], frame))

StepClassCheck == Running("class_check") /\ Continue(exec_class_check(out[pc], frame))

StepLoadField ==
    Running("load_field") /\ Continue(exec_load_field(out[pc], frame, collected_types))

StepIdDefault ==
    Running("id_default") /\ Continue(exec_id_default(out[pc], frame, uuid_count))

StepExtensionFields ==
    /\ Running("extension_fields")
    /\ Continue(exec_extension_fields(out[pc], frame, out[IndexOf("attrs")].attrs))

StepRaiseErrors == Running("raise_errors") /\ Continue(exec_raise_errors(out[pc], frame))

StepReturn ==
    /\ Running("return_cls")
    /\ Continue(exec_return_cls(out[pc], frame, out[IndexOf("__init__")],
                                out[IndexOf("class")].classname))

(* The record units that are loaded, saved and loaded again.  The caller
   (codegen.codegen) compiles every record declaration before it emits the
   first unit, and ends with the epilogue over the root type. *)

RegisterRecord ==
    /\ emit_pc = "begin"
    /\ returned = <<>>
    /\ Request(RecordDecl(RecUrl))

\* field lists: the fields id, u and a in any order, the class discriminator
\* first and the by-name field r last when there are
SaveFieldLists ==
    LET core == {<<>>} \cup {s \in SeqsUpTo({"id", "u", "a"}, 3) : NoDup(s)}
    IN  {pre \o c \o post : pre \in {<<>>, <<"class">>}, c \in core,
                              post \in {<<>>, <<"r">>}}

BeginClassSave ==
    /\ prologue_done
    /\ emit_pc = "begin"
    /\ returned # <<>>
    /\ \E fields \in SaveFieldLists :
       \E optional \in SUBSET (Range(fields) \cap {"id", "a"}) :
          /\ rec' = [fields |-> fields, optional |-> optional, abstract |-> FALSE]
          /\ SetEmit(begin_class(RecUrl, <<>>, "", FALSE, fields,
                                 IF "id" \in Range(fields) THEN IdFieldUrl ELSE "",
                                 optional, CurrentEmit))
          /\ emit_pc' = IF "id" \in Range(fields) THEN "id" ELSE "fields"
    /\ next_field' = 1
    /\ UNCHANGED compileVars
    /\ UNCHANGED loadVars
    /\ UNCHANGED restVars

\* epilogue(root_loader), the root type being the record, referred to by name
Epilogue ==
    /\ emit_pc = "done"
    /\ LET t == type_loader(StrDecl(RecUrl), CurrentGen)
       IN  /\ t.exc = "none"
           /\ SetGen(t.st)
           /\ SetEmit(epilogue(t.ret, CurrentEmit, t.st))
    /\ emit_pc' = "complete"
    /\ UNCHANGED <<prologue_done, returned, rec, next_field>>
    /\ UNCHANGED loadVars
    /\ UNCHANGED restVars

\* the documents loaded: every required field present, an optional field
\* present or absent, with or without an undeclared namespaced key
SaveDocs ==
    {MakeDoc(rec.fields, choice, extra) :
        choice \in {c \in [Range(rec.fields) -> {"absent", "good"}] :
                       \A f \in Range(rec.fields) :
                           c[f] = "absent" => f \in rec.optional},
        extra \in {<<>>, <<ExtensionKey>>}}

\* a call <class>.fromDoc(doc, baseuri, loadingOptions, docRoot)
StartLoadSave ==
    /\ emit_pc = "complete"
    /\ pc = 0
    /\ loads = <<>>
    /\ \E doc \in SaveDocs, docRoot \in {None, DocRoot} :
          frame' = Frame(doc, BaseUri, LoadingOptions(vocab), docRoot)
    /\ pc' = IndexOf("fromDoc")
    /\ UNCHANGED <<uuid_count, loads>>
    /\ UNCHANGED compileVars
    /\ UNCHANGED emitVars
    /\ UNCHANGED restVars

\* _document_load(loader, doc, baseuri, loadingOptions) for a record loader
\* and a mapping: <class>.fromDoc(doc, baseuri, loadingOptions, docRoot=baseuri)
document_load(doc, baseuri, loadingOptions) == Frame(doc, baseuri, loadingOptions, baseuri)

\* load_document(doc, baseuri, loadingOptions): without loadingOptions a new
\* LoadingOptions() is made
LoadDocument ==
    /\ emit_pc = "complete"
    /\ pc = 0
    /\ loads = <<>>
    /\ \E doc \in SaveDocs, given \in BOOLEAN :
          LET lo == LoadingOptions(vocab)
          IN  frame' = [document_load(doc, BaseUri, lo) EXCEPT
                            !.entry = "load_document", !.given = given, !.lo_before = lo]
    /\ pc' = IndexOf("fromDoc")
    /\ UNCHANGED <<uuid_count, loads>>
    /\ UNCHANGED compileVars
    /\ UNCHANGED emitVars
    /\ UNCHANGED restVars

\* load_document_by_string(string, uri, loadingOptions): result is the parsed
\* text; loadingOptions.idx[uri] = result, on the caller's object when one is
\* given, else on a new LoadingOptions(fileuri=uri)
LoadDocumentByString ==
    /\ emit_pc = "complete"
    /\ pc = 0
    /\ loads = <<>>
    /\ \E result \in SaveDocs, given \in BOOLEAN :
          LET lo == LoadingOptions(vocab)
              uri == BaseUri
              lo1 == [lo EXCEPT !.idx = (uri.v[1] :> result) @@ @]
          IN  frame' = [document_load(result, uri, lo1) EXCEPT
                            !.entry = "load_document_by_string", !.given = given,
                            !.lo_before = lo]
    /\ pc' = IndexOf("fromDoc")
    /\ UNCHANGED <<uuid_count, loads>>
    /\ UNCHANGED compileVars
    /\ UNCHANGED emitVars
    /\ UNCHANGED restVars

\* a call instance.save(top, base_url, relative_uris) on the loaded instance,
\* with the base the document was loaded with
Save ==
    /\ pc = 0
    /\ Len(loads) = 1
    /\ loads[1].exc.kind = "none"
    /\ Len(saved) < MaxSaves
    /\ \E top \in BOOLEAN, relative_uris \in BOOLEAN :
          LET self == loads[1].ret
              base_url == loads[1].base_in
              sv == run_save(serializer, SaveState(Doc(<<>>, <<>>), <<>>), self, top,
                             base_url, relative_uris)
          IN  saved' = Append(saved,
                  [self |-> self, top |-> top, base_url |-> base_url,
                   relative_uris |-> relative_uris, r |-> sv.r, calls |-> sv.calls])
    /\ UNCHANGED <<applied, rt, toc>>
    /\ UNCHANGED compileVars
    /\ UNCHANGED emitVars
    /\ UNCHANGED loadVars

\* the saved mapping is loaded with the arguments of the first load
LoadSaved ==
    /\ pc = 0
    /\ Len(loads) = 1
    /\ saved # <<>>
    /\ frame' = Frame(saved[Len(saved)].r, loads[1].base_in, loads[1].lo_before,
                      loads[1].docRoot)
    /\ pc' = IndexOf("fromDoc")
    /\ UNCHANGED <<uuid_count, loads>>
    /\ UNCHANGED compileVars
    /\ UNCHANGED emitVars
    /\ UNCHANGED restVars

NextSave ==
    \/ Prologue
    \/ RegisterRecord
    \/ BeginClassSave
    \/ DeclareIdField
    \/ DeclareField
    \/ EndClass
    \/ Epilogue
    \/ StartLoadSave
    \/ LoadDocument
    \/ LoadDocumentByString
    \/ StepFromDoc
    \/ StepClassCheck
    \/ StepLoadField
    \/ StepIdDefault
    \/ StepExtensionFields
    \/ StepRaiseErrors
    \/ StepReturn
    \/ Save
    \/ LoadSaved

NextCompile == Prologue \/ TypeLoaderCall

NextNested == Prologue \/ TypeLoaderNested

Next ==
    \/ Prologue
    \/ BeginClass
    \/ DeclareIdField
    \/ DeclareField
    \/ EndClass
    \/ StartLoad
    \/ Reload
    \/ StepFromDoc
    \/ StepClassCheck
    \/ StepLoadField
    \/ StepIdDefault
    \/ StepExtensionFields
    \/ StepRaiseErrors
    \/ StepReturn

(* makedoc: RenderType(toc, j, renderlist, redirects, primitiveType) over
   type lists whose references name types of the list *)

\* the declarations of a type named n in a list with the other names
DocShapes(n, others) ==
    LET plain == DocType(n, "record", <<>>, "", <<>>, "", <<>>, FALSE)
    IN  {plain,
         [plain EXCEPT !.type = "enum"],
         [plain EXCEPT !.abstract = TRUE],
         [plain EXCEPT !.fields = <<DocField(DocFieldUrl[n], StrDecl(XsdString))>>]}
        \cup {[plain EXCEPT !.extends = <<o>>] : o \in others}
        \cup {[plain EXCEPT !.docParent = o] : o \in others}
        \cup {[plain EXCEPT !.docChild = <<o>>] : o \in others}
        \cup {[plain EXCEPT !.docAfter = o] : o \in others}
        \cup {[plain EXCEPT !.fields =
                  <<DocField(DocFieldUrl[n],
                             ListDecl(<<StrDecl(SaladNull), StrDecl(o)>>))>>] :
                 o \in others}

RECURSIVE ShapeLists(_, _)
ShapeLists(names, i) ==
    IF i > Len(names) THEN {<<>>}
    ELSE {<<h>> \o tl : h \in DocShapes(names[i], Range(names) \ {names[i]}),
                        tl \in ShapeLists(names, i + 1)}

\* the chain of extends from the named type ends
RECURSIVE ExtendsEnds(_, _, _)
ExtendsEnds(j, name, fuel) ==
    LET t == TypeNamed(j, name)
    IN  IF t.extends = <<>> THEN TRUE
        ELSE IF fuel = 0 THEN FALSE
        ELSE ExtendsEnds(j, t.extends[1], fuel - 1)

\* the type lists: distinct names, no cycle of extends
TypeLists ==
    {<<>>} \cup
    {j \in UNION {ShapeLists(names, 1) :
                     names \in {s \in SeqsUpTo(DocNames, MaxTypes) : NoDup(s)}} :
        \A i \in 1..Len(j) : ExtendsEnds(j, j[i].name, Len(j))}

RenderLists == {{}, {DocAUrl}}
Redirects == {<<>>, (DocBUrl :> "other.html")}

\* RenderType.__init__ up to the call of extend_and_specialize
NewRenderType ==
    /\ rt.pc = "none"
    /\ \E j \in TypeLists, renderlist \in RenderLists, redirects \in Redirects :
          rt' = [index_relations(RenderType(j, renderlist, redirects), 1)
                    EXCEPT !.alltypes = extend_and_specialize(j),
                           !.pc = IF j = <<>> THEN "done" ELSE "index"]
    /\ UNCHANGED <<compileVars, emitVars, loadVars, applied, saved, toc>>

\* one pass of the loop that fills typemap, uses and record_refs
IndexEntry ==
    /\ rt.pc = "index"
    /\ LET last == rt.entry = Len(rt.alltypes)
       IN  rt' = [index_entry(rt) EXCEPT !.entry = IF last THEN 1 ELSE @ + 1,
                                         !.pc = IF last THEN "render" ELSE "index"]
    /\ UNCHANGED <<compileVars, emitVars, loadVars, applied, saved, toc>>

\* one pass of the loop that renders the root types; a KeyError ends __init__
RenderEntry ==
    /\ rt.pc = "render"
    /\ LET last == rt.entry = Len(rt.alltypes)
           r == IF IsRoot(rt, rt.alltypes[rt.entry])
                THEN render_type(rt, Ref("all", rt.entry), 1)
                ELSE rt
       IN  rt' = [r EXCEPT !.entry = @ + 1,
                           !.pc = IF r.exc # "none" THEN "raised"
                                  ELSE IF last THEN "done" ELSE "render"]
    /\ UNCHANGED <<compileVars, emitVars, loadVars, applied, saved, toc>>

NextDoc ==
    \/ NewRenderType
    \/ IndexEntry
    \/ RenderEntry

(* makedoc: one ToC, filled by add_entry calls (render_type) and by the lines
   of number_headings, then rendered by contents (avrold_doc) *)

\* toc.add_entry(depth, frg), as render_type calls it
AddEntry ==
    /\ toc.pc = "open"
    /\ toc.lines < MaxEntries
    /\ \E thisdepth \in 1..MaxDepth :
          toc' = [add_entry(toc, thisdepth, "Title") EXCEPT !.lines = @ + 1]
    /\ UNCHANGED <<compileVars, emitVars, loadVars, applied, saved, rt>>

\* avrold_doc: toc.start_numbering = False before any entry is added
StopNumbering ==
    /\ toc.pc = "open"
    /\ toc.lines = 0
    /\ toc.start_numbering
    /\ toc' = [toc EXCEPT !.start_numbering = FALSE]
    /\ UNCHANGED <<compileVars, emitVars, loadVars, applied, saved, rt>>

\* one line of the document that number_headings goes through
NumberLine ==
    /\ toc.pc = "open"
    /\ toc.lines < MaxEntries
    /\ \E line \in DocLines :
          toc' = [number_line(toc, line) EXCEPT !.lines = @ + 1]
    /\ UNCHANGED <<compileVars, emitVars, loadVars, applied, saved, rt>>

\* toc.contents("toc"), at the end of avrold_doc
Contents ==
    /\ toc.pc = "open"
    /\ toc' = [toc EXCEPT !.page = contents(toc, "toc"), !.pc = "rendered"]
    /\ UNCHANGED <<compileVars, emitVars, loadVars, applied, saved, rt>>

NextToc ==
    \/ AddEntry
    \/ StopNumbering
    \/ NumberLine
    \/ Contents

NextWrap ==
    \/ Prologue
    \/ UriLoaderCall
    \/ IdmapLoaderCall
    \/ TypedslLoaderCall
    \/ SameNameCall
    \/ IdmapLoad

\* the emission of one record unit and the loads of documents with it
Spec == Init /\ [][Next]_vars

\* top-level compile requests
SpecCompile == Init /\ [][NextCompile]_vars

\* compile requests for nested unions
SpecNested == Init /\ [][NextNested]_vars

\* record units with a by-name field, loaded through every entry point, saved
\* and loaded again
SpecSave == Init /\ [][NextSave]_vars

\* requests for wrapping loaders and decodes with the id-map loaders
SpecWrap == Init /\ [][NextWrap]_vars

\* makedoc's RenderType built over a type list
SpecDoc == Init /\ [][NextDoc]_vars

\* makedoc's table of contents filled and rendered
SpecToc == Init /\ [][NextToc]_vars

-----------------------------------------------------------------------------
(* Properties of the compiler *)

Succeeded(i) == returned[i].exc = "none"

\* C1: any two TypeDefs returned by type_loader that have the same canonical
\* name are one and the same object, and that object is the registry's entry
\* for the name.
C1_SameNameSameEntry ==
    \A i, j \in 1..Len(returned) :
        (Succeeded(i) /\ Succeeded(j) /\ returned[i].ret.name = returned[j].ret.name)
            => /\ returned[i].ret.oid = returned[j].ret.oid
               /\ returned[i].ret.name \in DOMAIN collected_types
               /\ collected_types[returned[i].ret.name].oid = returned[i].ret.oid

\* the canonical names of the compiled alternatives of a union declaration
MemberNames(d) ==
    [k \in 1..Len(d.alts) |-> type_loader(d.alts[k], CurrentGen).ret.name]

Count(s, x) == Cardinality({k \in DOMAIN s : s[k] = x})

SameMembers(s, t) ==
    /\ Len(s) = Len(t)
    /\ \A k \in DOMAIN s : Count(s, s[k]) = Count(t, s[k])

IsUnionCall(i) == Succeeded(i) /\ returned[i].decl.k = "list"

\* C10: a compiled union lists its compiled alternatives in declared order, and
\* two unions over the same members in different orders get different canonical
\* names and are different TypeDefs.
C10_UnionKeepsOrder ==
    /\ \A i \in 1..Len(returned) :
           IsUnionCall(i) => returned[i].ret.init.args = MemberNames(returned[i].decl)
    /\ \A i, j \in 1..Len(returned) :
           (/\ IsUnionCall(i) /\ IsUnionCall(j)
            /\ SameMembers(MemberNames(returned[i].decl), MemberNames(returned[j].decl))
            /\ MemberNames(returned[i].decl) # MemberNames(returned[j].decl))
               => /\ returned[i].ret.name # returned[j].ret.name
                  /\ returned[i].ret.oid # returned[j].ret.oid

\* the call ended with an exception
Raised(i) == returned[i].exc # "none"

\* C17: a compile request that fails fails with a schema error, and leaves the
\* TypeDef registry and the vocabulary table as they were before the call.
C17_UnknownTypeIsSchemaError ==
    \A i \in 1..Len(returned) :
        Raised(i) => /\ returned[i].exc = "SchemaException"
                     /\ returned[i].after = returned[i].before

\* the TypeDef the i-th request describes: what the request returns from a
\* generator that holds the primitives only
Requested(i) == request(returned[i].decl, prologue(GenState(<<>>, <<>>, FirstOid))).ret

\* the construction recipe and the flags of a TypeDef
Recipe(td) ==
    [init |-> td.init, is_uri |-> td.is_uri, scoped_id |-> td.scoped_id,
     ref_scope |-> td.ref_scope]

\* C19: two requests that describe loaders with different recipes or flags get
\* different canonical names, and a request is returned a TypeDef with the
\* recipe and flags it describes.
C19_NamesAreInjective ==
    /\ \A i, j \in 1..Len(returned) :
           (Succeeded(i) /\ Succeeded(j) /\ Recipe(Requested(i)) # Recipe(Requested(j)))
               => returned[i].ret.name # returned[j].ret.name
    /\ \A i \in 1..Len(returned) :
           Succeeded(i) => Recipe(returned[i].ret) = Recipe(Requested(i))

\* C16: an id-map loader compiled without a mapPredicate rejects an entry whose
\* value is no mapping; one compiled with a mapPredicate wraps such a value
\* under exactly that predicate.
C16_NoPredicateRejects ==
    \A n \in 1..Len(applied) :
        LET a == applied[n]
            q == returned[a.call].decl
            v == a.val.v["k1"]
        IN  v.t # "map" =>
              IF q.map_predicate = None
              THEN ~a.ok
              ELSE /\ a.ok
                   /\ a.ret = List(<<Map((q.map_subject.v[1] :> Str(<<"k1">>))
                                          @@ (q.map_predicate.v[1] :> v))>>)

-----------------------------------------------------------------------------
(* Properties of the loads of the emitted record unit *)

\* the finished calls of fromDoc, and the one that is running
Finished == Range(loads)
Frames == Finished \cup (IF pc > 0 THEN {frame} ELSE {})

Returned(L) == L.exc.kind = "none"

DeclaredFields == Range(rec.fields) \ {"class"}

HasId == "id" \in Range(rec.fields)

CallsOf(L, f) == {i \in 1..Len(L.calls) : L.calls[i].fieldname = f}

\* the value the load decoded for field f: what load_field returned for the raw
\* key, None for an optional field that is absent; for the id field, the id
\* the load settled on
DecodedFor(L, f) ==
    IF f = "id" THEN L.locals[<<"id">>]
    ELSE IF CallsOf(L, f) # {} THEN L.calls[CHOOSE i \in CallsOf(L, f) : TRUE].ret
    ELSE None

\* C2: after a successful load every declared field's slot holds the value
\* decoded from that field's own raw key (None when optional and absent).
C2_SlotHoldsOwnField ==
    \A L \in Finished :
        Returned(L) =>
            \A f \in DeclaredFields : L.ret.slots[safe_name(f)] = DecodedFor(L, f)

IsOtherCall(c) == c.fieldname # "id"
IsFailedOtherCall(c) == c.fieldname # "id" /\ ~c.ok

NoUndeclaredKeys(L) == Range(L.doc.keys) \subseteq Range(rec.fields)

\* the non-id fields a load must attempt: required, or present in the input
Attemptable(L) ==
    LET Try(f) == f \notin {"id", "class"} /\ (f \notin rec.optional \/ Has(L.doc, f))
    IN  SelectSeq(rec.fields, Try)

FieldError(c) ==
    ValidationException(<<"the field is not valid because:", c.fieldname>>, <<c.err>>)

\* C3: when k >= 1 non-id fields fail to decode and the input has no undeclared
\* key, every non-id field was attempted, in declaration order, and the load
\* raises one error naming the record whose children are the k field errors,
\* in order, each wrapping the field's own error.
C3_AllFieldErrorsAggregated ==
    \A L \in Finished :
        LET failed == SelectSeq(L.calls, IsFailedOtherCall)
            others == SelectSeq(L.calls, IsOtherCall)
        IN  (failed # <<>> /\ NoUndeclaredKeys(L)) =>
                /\ [i \in 1..Len(others) |-> others[i].fieldname] = Attemptable(L)
                /\ L.exc = ValidationException(
                               <<"Trying '", "Rec", "'">>,
                               [i \in 1..Len(failed) |-> FieldError(failed[i])])

C3_Witness ==
    \E L \in Finished :
        /\ Len(SelectSeq(L.calls, IsFailedOtherCall)) = 2
        /\ NoUndeclaredKeys(L)
        /\ Len(L.exc.children) = 2

ClassMismatch(L) == "class" \in Range(rec.fields) /\ Get(L.doc, "class") # Str(<<"Rec">>)

\* C4: a load whose class value is not the record's class name decodes no
\* field, reads and synthesizes no id, collects no field error, and ends with
\* one validation error without children.
C4_ClassMismatchIsFatal ==
    /\ \A L \in Frames :
           ClassMismatch(L) =>
               /\ L.calls = <<>>
               /\ L.errors__ = <<>>
               /\ L.locals = <<>>
               /\ L.drawn = 0
               /\ L.baseuri = L.base_in
    /\ \A L \in Finished :
           ClassMismatch(L) => L.exc = ValidationException(<<"Not a ", "Rec">>, <<>>)

C4_Witness ==
    \E L \in Finished :
        /\ ClassMismatch(L)
        /\ Has(L.doc, "class")
        /\ Has(L.doc, "a") /\ L.doc.vals["a"] = Num(7)
        /\ HasId /\ ~Has(L.doc, "id")

\* C5: a load returns an instance or raises a validation error, nothing else.
C5_OnlyValidationErrors ==
    \A L \in Finished : L.exc.kind \in {"none", "ValidationException"}

RequiredIdAbsent(L) == HasId /\ "id" \notin rec.optional /\ ~Has(L.doc, "id")

\* C6, for every docRoot: a load of a record whose required id is absent fails with a
\* validation error, whatever docRoot is.
C6_RequiredIdAbsentFails ==
    \A L \in Finished : RequiredIdAbsent(L) => L.exc.kind = "ValidationException"

\* C6, no docRoot given: a load of a record whose required id is absent fails with a
\* validation error when no docRoot is given.
C6_RequiredIdAbsentFailsWithoutDocRoot ==
    \A L \in Finished :
        (RequiredIdAbsent(L) /\ L.docRoot = None) => L.exc.kind = "ValidationException"

C6_Witness ==
    \E L \in Finished :
        /\ RequiredIdAbsent(L)
        /\ L.docRoot = None
        /\ L.exc = ValidationException(<<"Missing ", "id">>, <<>>)

OptionalIdAbsent(L) == HasId /\ "id" \in rec.optional /\ ~Has(L.doc, "id")

IsSynthetic(v) == v.t = "str" /\ Len(v.v) >= 1 /\ v.v[1] = "_:"

IdSettled(L) == <<"id">> \in DOMAIN L.locals

C8_FieldsDecodedAgainstId ==
    \A L \in Frames :
        \A i \in 1..Len(L.calls) :
            IF L.calls[i].fieldname = "id"
            THEN L.calls[i].baseuri = L.base_in
            ELSE HasId => /\ IdSettled(L)
                          /\ L.calls[i].baseuri = L.locals[<<"id">>]

C8_Witness ==
    \E L \in Finished :
        /\ rec.fields = <<"a", "b", "id">>
        /\ Returned(L)
        /\ Has(L.doc, "id")
        /\ L.locals[<<"id">>] = Str(<<"file:///doc", "#", "x">>)
        /\ CallsOf(L, "a") # {} /\ CallsOf(L, "b") # {}

\* the statement of field b has run in the load
BSettled(L) == <<"b">> \in DOMAIN L.locals \/ CallsOf(L, "b") # {}

IsInvalidKey(k) == k \notin Range(rec.fields) /\ ~HasColon(k)

HasInvalidKey(L) == \E i \in 1..Len(L.doc.keys) : IsInvalidKey(L.doc.keys[i])

FirstInvalid(L) ==
    CHOOSE i \in 1..Len(L.doc.keys) :
        /\ IsInvalidKey(L.doc.keys[i])
        /\ \A j \in 1..(i - 1) : ~IsInvalidKey(L.doc.keys[j])

IsInvalidFieldError(e) ==
    e.kind = "ValidationException" /\ Len(e.msg) = 2
        /\ e.msg[1] = "invalid field, expected one of:"

\* the load ended with the error that names the record type
RaisedRecordError(L) ==
    L.exc.kind = "ValidationException" /\ Len(L.exc.msg) = 3 /\ L.exc.msg[1] = "Trying '"

\* C12: a document with an undeclared key that has no namespace separator
\* fails to load; the record error has exactly one "invalid field" child, which
\* names the first such key in key order, and no undeclared key after it gives
\* an error or an extension-field entry.
C12_FirstInvalidKeyStopsScan ==
    \A L \in Finished :
        HasInvalidKey(L) =>
            /\ L.exc.kind # "none"
            /\ RaisedRecordError(L) =>
                 LET ch == L.exc.children
                     first == FirstInvalid(L)
                 IN  /\ Cardinality({i \in 1..Len(ch) : IsInvalidFieldError(ch[i])}) = 1
                     /\ ch[Len(ch)] = ValidationException(
                            <<"invalid field, expected one of:", L.doc.keys[first]>>, <<>>)
                     /\ DOMAIN L.extension_fields =
                            {L.doc.keys[j] : j \in {j \in 1..(first - 1) :
                                                      HasColon(L.doc.keys[j])}}

C12_Witness ==
    \E L \in Finished :
        /\ L.doc.keys = <<"a", ExtensionKey, "bogus", "bogus2", ExtensionKey2>>
        /\ RaisedRecordError(L)
        /\ L.exc.children =
              <<ValidationException(<<"invalid field, expected one of:", "bogus">>, <<>>)>>
        /\ DOMAIN L.extension_fields = {ExtensionKey}

-----------------------------------------------------------------------------
(* Properties of the saves, the entry points and the by-name references *)

\* the undeclared namespaced keys of a document
ExtensionKeysOf(d) == {k \in Range(d.keys) : k \notin Range(rec.fields) /\ HasColon(k)}

\* C11: an undeclared namespaced key raises no "invalid field" error, is kept
\* with its value in the instance's extension fields, and save emits it with
\* the same key and the same value.
C11_ExtensionKeySurvives ==
    /\ \A L \in Finished :
           \A k \in ExtensionKeysOf(L.doc) :
               /\ \A i \in 1..Len(L.exc.children) :
                      ~(IsInvalidFieldError(L.exc.children[i])
                            /\ L.exc.children[i].msg[2] = k)
               /\ Returned(L) =>
                      /\ k \in DOMAIN L.ret.extension_fields
                      /\ L.ret.extension_fields[k] = L.doc.vals[k]
    /\ \A n \in 1..Len(saved) :
           \A k \in DOMAIN saved[n].self.extension_fields :
               /\ Has(saved[n].r, k)
               /\ saved[n].r.vals[k] = saved[n].self.extension_fields[k]

C11_Witness ==
    /\ Len(loads) >= 1
    /\ Returned(loads[1])
    /\ ExtensionKey \in Range(loads[1].doc.keys)
    /\ Len(saved) = 1
    /\ saved[1].self = loads[1].ret
    /\ Has(saved[1].r, ExtensionKey)
    /\ saved[1].r.vals[ExtensionKey] = loads[1].doc.vals[ExtensionKey]

\* structural equality of two instances: class, field slots, extension fields
SameInstance(x, y) ==
    /\ x.t = "inst" /\ y.t = "inst"
    /\ x.cls = y.cls
    /\ x.slots = y.slots
    /\ x.extension_fields = y.extension_fields

\* the saved mapping has been loaded again
Reloaded == Len(loads) = 2 /\ Len(saved) = 1

\* C13: the mapping saved from a loaded instance loads, with the same base
\* and settings, to an instance structurally equal to the first.
C13_RoundTrip ==
    Reloaded => /\ Returned(loads[2])
                /\ SameInstance(loads[2].ret, loads[1].ret)

\* C14, by field kind: in a save, the id field is compacted relative to the
\* record's own id, and every other present field gets the base_url passed to
\* save; URI fields go through save_relative_uri, other fields through save.
C14_IdAgainstOwnId ==
    \A n \in 1..Len(saved) :
        \A i \in 1..Len(saved[n].calls) :
            LET c == saved[n].calls[i]
            IN  /\ c.fn = (IF c.fieldname \in UriFields \cup {"id"}
                           THEN "save_relative_uri" ELSE "save")
                /\ c.base = (IF c.fieldname = "id" /\ HasId
                             THEN saved[n].self.slots[<<"id">>]
                             ELSE saved[n].base_url)

\* C14, by field position: in a save, the id field is compacted relative to
\* the base_url passed to save, and every other present field gets the
\* record's own id slot when the record has an id field, else base_url; URI
\* fields go through save_relative_uri, other fields through save.
C14_IdAgainstBaseUrl ==
    \A n \in 1..Len(saved) :
        \A i \in 1..Len(saved[n].calls) :
            LET c == saved[n].calls[i]
            IN  /\ c.fn = (IF c.fieldname \in UriFields \cup {"id"}
                           THEN "save_relative_uri" ELSE "save")
                /\ c.base = (IF c.fieldname # "id" /\ HasId
                             THEN saved[n].self.slots[<<"id">>]
                             ELSE saved[n].base_url)

C14_Witness ==
    /\ rec.fields = <<"id", "u", "a">>
    /\ rec.optional = {}
    /\ Len(saved) = 1
    /\ saved[1].relative_uris
    /\ saved[1].self.slots[<<"id">>] = Str(<<"file:///doc", "#", "x">>)
    /\ saved[1].calls =
          <<[fieldname |-> "id", fn |-> "save_relative_uri", base |-> BaseUri],
            [fieldname |-> "u", fn |-> "save_relative_uri",
             base |-> Str(<<"file:///doc", "#", "x">>)],
            [fieldname |-> "a", fn |-> "save", base |-> Str(<<"file:///doc", "#", "x">>)]>>
    /\ saved[1].r.vals["id"] = Str(<<"x">>)
    /\ saved[1].r.vals["u"] = Str(<<"y">>)

\* C15: a load leaves the loadingOptions object its caller supplied as it was,
\* and a successful load attaches to the instance a copy of it whose original
\* document is the copy of the raw input.
C15_CallerContextUnchanged ==
    \A L \in Finished :
        /\ L.given => L.loadingOptions = L.lo_before
        /\ Returned(L) =>
               L.ret.loadingOptions = [L.loadingOptions EXCEPT !.original_doc = L.copy_doc]

\* the compile requests made for a by-name field while a unit is emitted
IsByNameCall(i) == "during" \in DOMAIN returned[i]

\* C18: a field type that names the record compiles while the record's unit
\* is still being emitted, to the TypeDef that the record's declaration
\* compiled to, which holds the class name only.
C18_ByNameBeforeUnit ==
    \A i \in 1..Len(returned) :
        IsByNameCall(i) =>
            /\ Succeeded(i)
            /\ returned[i].during \notin {"done", "complete"}
            /\ returned[1].decl = RecordDecl(RecUrl)
            /\ returned[i].ret = returned[1].ret
            /\ returned[i].ret.init = Ctor("_RecordLoader", <<<<"Rec">>>>)
            /\ collected_types[returned[i].ret.name] = returned[i].ret
            /\ returned[i].after = returned[i].before

C18_Witness ==
    /\ emit_pc = "fields"
    /\ \E i \in 1..Len(returned) :
          /\ IsByNameCall(i)
          /\ Succeeded(i)
          /\ returned[i].decl = StrDecl(RecUrl)
          /\ returned[i].ret.name = <<"Rec", "Loader">>
    /\ \A j \in 1..Len(out) : out[j].op # "return_cls"

-----------------------------------------------------------------------------
(* Properties of makedoc's RenderType *)

\* the index loop is over
Indexed == rt.pc \in {"render", "done", "raised"}

\* the types of the fields of declaration t
FieldTypes(t) == UNION {Range(has_types(t.fields[n].type)) : n \in 1..Len(t.fields)}

\* the (type, field) fragments of the record declarations with a field of type tp
UsesOf(tp) ==
    {<<urldefrag(rt.alltypes[p[1]].name), urldefrag(rt.alltypes[p[1]].fields[p[2]].name)>> :
        p \in {p \in (1..Len(rt.alltypes)) \X (1..MaxTypes) :
                 /\ rt.alltypes[p[1]].type = "record"
                 /\ p[2] <= Len(rt.alltypes[p[1]].fields)
                 /\ tp \in Range(has_types(rt.alltypes[p[1]].fields[p[2]].type))}}

\* the types that the fields of the record declarations reference
UsedTypes ==
    UNION {FieldTypes(rt.alltypes[i]) :
              i \in {i \in 1..Len(rt.alltypes) : rt.alltypes[i].type = "record"}}

\* C20: once the index is built, typemap maps the name of every type of the
\* resolved list to that type's declaration, record_refs and uses hold what
\* each record's own fields reference, and no typemap lookup of render_type
\* fails.
C20_TypemapCoversResolvedList ==
    Indexed =>
        /\ \A i \in 1..Len(rt.alltypes) :
              LET entry == rt.alltypes[i]
              IN  /\ entry.name \in DOMAIN rt.typemap
                  /\ Deref(rt, rt.typemap[entry.name]) = entry
                  /\ entry.type = "record" =>
                        /\ entry.name \in DOMAIN rt.record_refs
                        /\ Range(rt.record_refs[entry.name]) = FieldTypes(entry) \ basicTypes
        /\ DOMAIN rt.uses = UsedTypes
        /\ \A tp \in DOMAIN rt.uses : Range(rt.uses[tp]) = UsesOf(tp)
        /\ rt.exc = "none"

-----------------------------------------------------------------------------
(* Properties of makedoc's table of contents *)

\* the number of occurrences of a tag in a markup
RECURSIVE CountTag(_, _)
CountTag(markup, tag) ==
    IF markup = <<>> THEN 0
    ELSE (IF Head(markup) = tag THEN 1 ELSE 0) + CountTag(Tail(markup), tag)

\* as many lists closed as opened, and never more closed than opened so far
Balanced(markup) ==
    /\ CountTag(markup, "<ol>") = CountTag(markup, "</ol>")
    /\ \A n \in 0..Len(markup) :
          CountTag(SubSeq(markup, 1, n), "</ol>") <= CountTag(SubSeq(markup, 1, n), "<ol>")

\* C21: the table of contents returned by contents after one or more
\* add_entry calls, whatever their depths, has balanced list markup.
C21_ContentsBalanced ==
    (toc.pc = "rendered" /\ toc.entries >= 1) => Balanced(toc.page)

====
